---- MODULE Spec2Model ----
(***************************************************************************)
(* DEM project-record store (FIN3/app/chat_handler.py): flat-file JSON     *)
(* persistence, enrichment of derived fields, note operations, archive,    *)
(* delete, JSON import, reports and exports, with _enrich_project and      *)
(* dem_attach_doc of the DEM variant (DEM/app/chat_handler.py), the        *)
(* session login of FIN3, the in-memory chat sessions of the ia variant    *)
(* (ia/app/chat_handler.py) and cleanup_old_zips of IACHAT_PRO_v3          *)
(* (IACHAT_PRO_v3/app/utils/cleanup.py).                                   *)
(*                                                                         *)
(* Encoding of Python values:                                              *)
(*   - a str that the code scans is a sequence of one-character strings;   *)
(*     "-" stands for the em dash U+2014 of the separator "] - ";          *)
(*   - a dict is a record, a missing key is a name outside DOMAIN;         *)
(*   - an ISO timestamp string is [iso |-> n] (n clock ticks), any other   *)
(*     string in its place is [raw |-> s]; a "%Y-%m-%d" date string is     *)
(*     [ymd |-> day];                                                      *)
(*   - None is {} and an int result n is {n} (duration_days);              *)
(*   - a JSON list in the documents field is [list |-> seq], any other     *)
(*     JSON value there is [other |-> s];                                  *)
(*   - DEMS_FILE is [exists, data], data its text as a sequence of tokens  *)
(*     (section DEMS_FILE); json.dump and json.loads convert between the   *)
(*     records and the tokens;                                             *)
(*   - a report is the sequence of its lines, a sheet that of its rows.    *)
(***************************************************************************)
EXTENDS Integers, Sequences, FiniteSets, TLC

\* ---------------------------------------------------------------- bounds
TicksPerMs == 1          \* clock ticks (datetime resolution) per millisecond
TicksPerDay == 2         \* clock ticks per day (time scale of the model)
MaxBrackets == 4         \* leading "[..] - " brackets in a submitted text
MaxDems == 2             \* records in the persisted collection
MaxNotes == 3            \* notes per record
MaxClock == 1            \* last clock reading of the store specifications
MaxItems == 2            \* records + notes + documents, lifecycle specification

\* ------------------------------------------------------ program constants
SLA_DAYS == 5

SlaWindow == SLA_DAYS * TicksPerDay
MaxNow == SlaWindow + 2

VARIABLES
    now,        \* datetime.utcnow() / time.time(), in ticks
    dems_file,  \* DEMS_FILE: whether it exists and its text
    resp,       \* the response of the last request
    gone,       \* ids deleted and not created or imported since
    threads,    \* in-flight requests of the interleaved specification
    arg,        \* input of the pure functions
    out         \* their results

vars == <<now, dems_file, resp, gone, threads, arg, out>>

\* ------------------------------------------------------------ str helpers
SEP == <<"]", " ", "-", " ">>

RECURSIVE lstrip(_)
lstrip(s) == IF s # <<>> /\ Head(s) = " " THEN lstrip(Tail(s)) ELSE s

RECURSIVE rstrip(_)
rstrip(s) ==
    IF s # <<>> /\ s[Len(s)] = " " THEN rstrip(SubSeq(s, 1, Len(s) - 1)) ELSE s

strip(s) == rstrip(lstrip(s))

startswith(s, c) == s # <<>> /\ Head(s) = c

\* positions (1-based) where SEP occurs in s
SepAt(s) == {p \in 1..(Len(s) - 3) : SubSeq(s, p, p + 3) = SEP}

Min(S) == CHOOSE m \in S : \A k \in S : m <= k

\* str.find("] - "): 0-based index of the first occurrence, -1 if none
find(s) == IF SepAt(s) = {} THEN -1 ELSE Min(SepAt(s)) - 1

_clean_note_text(raw) ==
    IF raw = <<>> THEN <<>>
    ELSE LET txt == strip(raw)
         IN  IF startswith(txt, "[") /\ SepAt(txt) # {}
             THEN LET end == find(txt)
                  IN  lstrip(SubSeq(txt, end + 4 + 1, Len(txt)))
             ELSE txt

\* dict.get(key, default)
Get(d, k, default) == IF k \in DOMAIN d THEN d[k] ELSE default

\* d[key] = v
Put(d, k, v) == [x \in (DOMAIN d) \cup {k} |-> IF x = k THEN v ELSE d[x]]

IsDict(note) == "legacy" \notin DOMAIN note

_format_note(note) ==
    IF IsDict(note)
    THEN LET text == _clean_note_text(Get(note, "text", <<>>))
             date == Get(note, "date", "")
         IN  IF date # ""
             THEN IF text # <<>> THEN <<"[", date>> \o SEP \o text
                                 ELSE <<"[", date, "]">>
             ELSE text
    ELSE _clean_note_text(note.legacy)

\* ------------------------------------------------------------- timestamps
EMPTY == [raw |-> ""]                 \* "" (or None): a falsy string
isoformat(t) == [iso |-> t]           \* datetime.isoformat()
strftime_minute(t) == ToString(t)     \* strftime("%Y-%m-%d %H:%M")
Truthy(v) == v # EMPTY
IsIso(v) == "iso" \in DOMAIN v        \* datetime.fromisoformat(v) succeeds
IsYmd(v) == "ymd" \in DOMAIN v        \* strptime(v, "%Y-%m-%d") succeeds
Today(t) == t \div TicksPerDay        \* datetime.utcnow().date()
None == {}

\* a or b, for the keys k1, k2 of d
GetOr(d, k1, k2) ==
    IF Truthy(Get(d, k1, EMPTY)) THEN Get(d, k1, EMPTY) ELSE Get(d, k2, EMPTY)

\* ------------------------------------------------------------- enrichment
clean_note(n) ==
    IF IsDict(n) THEN Put(n, "text", _clean_note_text(Get(n, "text", <<>>)))
    ELSE [legacy |-> _clean_note_text(n.legacy)]

cleaned_notes(dem) ==
    LET raw_notes == Get(dem, "notes", <<>>)
    IN  [k \in 1..Len(raw_notes) |-> clean_note(raw_notes[k])]

duration_days(dem, t) ==
    LET start_date == Get(dem, "start_date", EMPTY)
    IN  IF Truthy(start_date) /\ IsYmd(start_date)
        THEN {Today(t) - start_date.ymd}
        ELSE None

last_note(notes) ==
    IF notes # <<>> THEN _format_note(notes[Len(notes)]) ELSE <<>>

\* counts a timestamp that does not parse as breached
sla_breached_unparsed(dem, t) ==
    LET updated_str == GetOr(dem, "updated_at", "created_at")
    IN  Truthy(updated_str)
        /\ (IsIso(updated_str) => t - updated_str.iso > SlaWindow)

sla_breached(dem, t) ==
    LET updated_str == GetOr(dem, "updated_at", "created_at")
    IN  Truthy(updated_str) /\ IsIso(updated_str)
        /\ t - updated_str.iso > SlaWindow

IsList(v) == "list" \in DOMAIN v

\* leaves the priority as stored
enrich_dem_stored_priority(dem, t) ==
    LET notes == cleaned_notes(dem)
        d1 == Put(dem, "notes", notes)
        d2 == Put(d1, "duration_days", duration_days(dem, t))
        d3 == Put(d2, "last_note", last_note(notes))
        d4 == Put(d3, "sla_breached", sla_breached(dem, t))
        d5 == IF "archived" \notin DOMAIN d4
              THEN Put(d4, "archived", FALSE) ELSE d4
        d7 == IF "documents" \notin DOMAIN d5 \/ ~IsList(d5.documents)
              THEN Put(d5, "documents", [list |-> <<>>]) ELSE d5
    IN  d7

enrich_dem(dem, t) ==
    LET notes == cleaned_notes(dem)
        d1 == Put(dem, "notes", notes)
        d2 == Put(d1, "duration_days", duration_days(dem, t))
        d3 == Put(d2, "last_note", last_note(notes))
        d4 == Put(d3, "sla_breached", sla_breached(dem, t))
        d5 == IF "archived" \notin DOMAIN d4
              THEN Put(d4, "archived", FALSE) ELSE d4
        d6 == IF Get(d5, "priority", "") = ""
              THEN Put(d5, "priority", "2") ELSE d5
        d7 == IF "documents" \notin DOMAIN d6 \/ ~IsList(d6.documents)
              THEN Put(d6, "documents", [list |-> <<>>]) ELSE d6
    IN  d7

\* DEM variant: the timestamp a string of its record parses to, {} if none
ParseDem(v) ==
    IF IsYmd(v) THEN {v.ymd * TicksPerDay}
    ELSE IF IsIso(v) THEN {v.iso} ELSE {}

_enrich_project(p, t) ==
    LET start_date_raw == Get(p, "start_date", EMPTY)
        notes == Get(p, "notes", <<>>)
        last == notes[Len(notes)]
        last_note_text == IF notes # <<>> THEN Get(last, "text", <<>>) ELSE <<>>
        last_note_ts == IF notes # <<>> THEN Get(last, "created_at", EMPTY)
                        ELSE EMPTY
        updated_raw ==
            IF Truthy(Get(p, "updated_at", EMPTY)) THEN p.updated_at
            ELSE IF Truthy(last_note_ts) THEN last_note_ts
            ELSE start_date_raw
        stale == Truthy(updated_raw)
                 /\ \E udt \in ParseDem(updated_raw) : t - udt >= SlaWindow
        dur == IF Truthy(start_date_raw)
               THEN {(t - dt) \div TicksPerDay : dt \in ParseDem(start_date_raw)}
               ELSE None
    IN  Put(Put(Put(p, "duration_days", dur), "last_note", last_note_text),
            "stale", stale)

\* ------------------------------------------------------------ DEMS_FILE
\* The file is [exists, data]; data is its text as a sequence of tokens: the
\* brackets of the top-level list, one token per JSON object of the list,
\* white space, and bytes that are no JSON.
ABSENT == [exists |-> FALSE, data |-> <<>>]
OPEN == [tok |-> "["]
CLOSE == [tok |-> "]"]
WS == [ws |-> TRUE]
JUNK == [junk |-> TRUE]

\* the keys of a record whose values are no str; a str is written and read
\* back as it is (UTF-8 both ways, ensure_ascii=False)
TypedKeys == {"archived", "notes", "documents", "sla_breached", "duration_days"}

\* json.dump of the value of key k: a bool is a literal, None is null, an int
\* a number, a list an array
json_value(k, v) ==
    CASE k \in {"archived", "sla_breached"} ->
            [lit |-> IF v THEN "true" ELSE "false"]
      [] k = "duration_days" ->
            IF v = None THEN [lit |-> "null"]
            ELSE [num |-> CHOOSE n \in v : TRUE]
      [] k = "notes" -> [arr |-> v]
      [] k = "documents" -> IF IsList(v) THEN [arr |-> v.list] ELSE v

\* json.loads of the value of key k
python_value(k, j) ==
    CASE k \in {"archived", "sla_breached"} -> j.lit = "true"
      [] k = "duration_days" -> IF "num" \in DOMAIN j THEN {j.num} ELSE None
      [] k = "notes" -> j.arr
      [] k = "documents" -> IF "arr" \in DOMAIN j THEN [list |-> j.arr] ELSE j

\* a dump that leaves out the keys whose value is false
json_object_skip_false(d) ==
    [f \in {k \in DOMAIN d : k # "archived" \/ d[k]} |->
        IF f \in TypedKeys THEN json_value(f, d[f]) ELSE d[f]]

\* the JSON object of the dict d
json_object(d) ==
    [f \in DOMAIN d |-> IF f \in TypedKeys THEN json_value(f, d[f]) ELSE d[f]]

\* the dict of the JSON object o
python_dict(o) ==
    [f \in DOMAIN o |-> IF f \in TypedKeys THEN python_value(f, o[f]) ELSE o[f]]

\* json.dump(dems, f, ensure_ascii=False, indent=2): the text written
json_dump(dems) ==
    <<OPEN>>
    \o [k \in 1..Len(dems) |-> [obj |-> json_object(dems[k])]]
    \o <<CLOSE>>

\* f.read().strip()
RECURSIVE lstrip_ws(_)
lstrip_ws(data) ==
    IF data # <<>> /\ Head(data) = WS THEN lstrip_ws(Tail(data)) ELSE data

RECURSIVE rstrip_ws(_)
rstrip_ws(data) ==
    IF data # <<>> /\ data[Len(data)] = WS
    THEN rstrip_ws(SubSeq(data, 1, Len(data) - 1)) ELSE data

read_strip(data) == rstrip_ws(lstrip_ws(data))

\* the text is a complete JSON list of objects
WellFormed(data) ==
    /\ Len(data) >= 2
    /\ data[1] = OPEN
    /\ data[Len(data)] = CLOSE
    /\ \A k \in 2..(Len(data) - 1) : "obj" \in DOMAIN data[k]

\* json.loads(data): [ok |-> FALSE] stands for the JSONDecodeError
json_loads(data) ==
    IF WellFormed(data)
    THEN [ok |-> TRUE,
          value |-> [k \in 1..(Len(data) - 2) |->
                       python_dict(data[k + 1].obj)]]
    ELSE [ok |-> FALSE]

\* a load that keeps the objects it could read before the text breaks off
load_dems_lenient(file) ==
    IF ~file.exists THEN <<>>
    ELSE LET data == read_strip(file.data)
             objs == SelectSeq(data, LAMBDA x : "obj" \in DOMAIN x)
         IN  [k \in 1..Len(objs) |-> python_dict(objs[k].obj)]

\* ------------------------------------------------------------ record store
\* (data is bound by a one-element set, which evaluates the text once)
load_dems(file) ==
    IF ~file.exists THEN <<>>
    ELSE CHOOSE dems \in
            {IF data = <<>> THEN <<>>
             ELSE LET loaded == json_loads(data)
                  IN  IF loaded.ok THEN loaded.value ELSE <<>> :
                data \in {read_strip(file.data)}} : TRUE

\* the stamp of a record: its updated_at in ticks, -1 without a parsable one
Ts(d) ==
    LET u == Get(d, "updated_at", EMPTY) IN IF IsIso(u) THEN u.iso ELSE -1

\* a save that merges per record: keeps a stored record newer than the one
\* being written
save_newer(file, dems) ==
    LET stored == load_dems(file)
    IN  [exists |-> TRUE,
         data |-> json_dump(
            [k \in 1..Len(dems) |->
                IF k <= Len(stored) /\ Ts(stored[k]) > Ts(dems[k])
                THEN stored[k] ELSE dems[k]])]

\* the try branch of save_dems runs to its end: open(DEMS_FILE, "w") replaces
\* the file by the dump
save_dems(file, dems) == [exists |-> TRUE, data |-> json_dump(dems)]

\* the except branch: open fails (cut < 0, the file is as it was) or the
\* write breaks off after cut tokens of the dump; the error is logged
save_dems_error(file, dems, cut) ==
    IF cut < 0 THEN file
    ELSE [exists |-> TRUE, data |-> SubSeq(json_dump(dems), 1, cut)]

Ids(dems) == {Get(dems[k], "id", "") : k \in 1..Len(dems)}

\* save_dems with its outcome: cut = the length of the dump when the write is
\* complete
write(file, dems, cut) ==
    IF cut = Len(json_dump(dems)) THEN save_dems(file, dems)
    ELSE save_dems_error(file, dems, cut)

\* a handler that answers 500 when the write did not complete
answer_checks_save(code, complete) == IF complete THEN code ELSE 500

\* save_dems returns None from both branches and the handlers return the
\* record they hold in memory: the answer does not depend on the write
answer_after_save(code, complete) == code

\* index of the first record whose id is id (the linear scan of _update_dem)
First(dems, id) ==
    Min({k \in 1..Len(dems) : Get(dems[k], "id", "") = id})

Raise == [raise |-> "ValueError"]
Raised(d) == "raise" \in DOMAIN d

\* result of a handler: HTTP status and the content of DEMS_FILE afterwards
Result(code, file) == [code |-> code, file |-> file]

new_id(t) == "dem_" \o ToString(t \div TicksPerMs)

new_note(text, t) == [text |-> text, date |-> strftime_minute(t)]

\* the dict create_dem builds from the request body
new_dem(data, t) ==
    LET now_iso == isoformat(t)
        initial_note == strip(Get(data, "initial_note", <<>>))
    IN  [id |-> new_id(t),
        status |-> IF Get(data, "status", "") = "" THEN "Idea"
                   ELSE data.status,
        start_date |-> Get(data, "start_date", EMPTY),
        priority |-> IF Get(data, "priority", "") = "" THEN "2"
                     ELSE data.priority,
        notes |-> IF initial_note # <<>>
                  THEN <<new_note(_clean_note_text(initial_note), t)>>
                  ELSE <<>>,
        documents |-> [list |-> <<>>],
        doc_summary |-> "",
        created_at |-> now_iso,
        updated_at |-> now_iso,
        archived |-> FALSE]

create_dem(data, file, t) ==
    Result(200, save_dems(file, Append(load_dems(file), new_dem(data, t))))

add_note_updater(d, clean_text, t) ==
    Put(d, "notes", Append(Get(d, "notes", <<>>), new_note(clean_text, t)))

\* off by one: lets index = len(notes) through
index_ok_upto_len(index, notes) == ~(index < 0 \/ index > Len(notes))

\* the bounds check of the note updaters; index is 0-based
index_ok(index, notes) == ~(index < 0 \/ index >= Len(notes))

edit_note_updater(d, index, clean_text, t) ==
    LET notes == Get(d, "notes", <<>>)
    IN  IF ~index_ok(index, notes) THEN Raise
        ELSE Put(d, "notes",
                 [notes EXCEPT ![index + 1] = new_note(clean_text, t)])

\* list.pop(): drops the last element whatever the index
pop_last(notes, index) == SubSeq(notes, 1, Len(notes) - 1)

\* list.pop(index)
pop(notes, index) ==
    SubSeq(notes, 1, index) \o SubSeq(notes, index + 2, Len(notes))

delete_note_updater(d, index) ==
    LET notes == Get(d, "notes", <<>>)
    IN  IF ~index_ok(index, notes) THEN Raise
        ELSE Put(d, "notes", pop(notes, index))

\* the editable fields of the model; the code's loop treats name, sponsor,
\* requester, ba_owner, title, change_request, cost_center, workflow_status
\* and current_owner exactly as it treats status
EditableFields == {"status", "start_date", "priority"}

\* copies every key of the payload
update_updater_any_key(d, data) ==
    [x \in (DOMAIN d) \cup (DOMAIN data) |->
        IF x \in DOMAIN data THEN data[x] ELSE d[x]]

update_updater(d, data) ==
    [x \in (DOMAIN d) \cup ((DOMAIN data) \cap EditableFields) |->
        IF x \in (DOMAIN data) \cap EditableFields THEN data[x] ELSE d[x]]

PLACEHOLDER == "An automatic executive summary could not be generated"

attach_updater(d, filename, summary, t) ==
    LET docs == IF "documents" \in DOMAIN d /\ IsList(d.documents)
                THEN d.documents.list ELSE <<>>
        doc == [filename |-> filename, summary |-> summary,
                date |-> strftime_minute(t)]
    IN  Put(Put(d, "documents", [list |-> Append(docs, doc)]),
            "doc_summary", summary)

\* updater(d): the closure a handler hands to _update_dem, as a record of
\* its name and captured values
call(updater, d, t) ==
    CASE updater.fn = "add_note" -> add_note_updater(d, updater.text, t)
      [] updater.fn = "edit_note" ->
            edit_note_updater(d, updater.index, updater.text, t)
      [] updater.fn = "delete_note" -> delete_note_updater(d, updater.index)
      [] updater.fn = "update" -> update_updater(d, updater.data)
      [] updater.fn = "archive" -> Put(d, "archived", TRUE)
      [] updater.fn = "restore" -> Put(d, "archived", FALSE)
      [] updater.fn = "attach" ->
            attach_updater(d, updater.filename, updater.summary, t)
      [] updater.fn = "summary_delete" -> Put(d, "doc_summary", "")

\* the scan and the updater without the updated_at stamp
mutate_no_stamp(id, updater, dems, t) ==
    IF id \notin Ids(dems) THEN [code |-> 404, dems |-> dems]
    ELSE LET i == First(dems, id)
             d == call(updater, dems[i], t)
         IN  IF Raised(d) THEN [code |-> 400, dems |-> dems]
             ELSE [code |-> 200, dems |-> [dems EXCEPT ![i] = d]]

\* the in-memory part of _update_dem: linear scan, updater, updated_at stamp
mutate(id, updater, dems, t) ==
    IF id \notin Ids(dems) THEN [code |-> 404, dems |-> dems]
    ELSE LET i == First(dems, id)
             d == call(updater, dems[i], t)
         IN  IF Raised(d) THEN [code |-> 400, dems |-> dems]
             ELSE [code |-> 200,
                   dems |-> [dems EXCEPT
                               ![i] = Put(d, "updated_at", isoformat(t))]]

\* an update that takes the first record when no record has the id
_update_dem_first(id, updater, file, t) ==
    LET dems == load_dems(file)
        target == IF id \in Ids(dems) \/ dems = <<>> THEN id
                  ELSE Get(dems[1], "id", "")
        m == mutate(target, updater, dems, t)
    IN  IF m.code = 200 THEN Result(200, save_dems(file, m.dems))
        ELSE Result(m.code, file)

_update_dem(id, updater, file, t) ==
    LET m == mutate(id, updater, load_dems(file), t)
    IN  IF m.code = 200 THEN Result(200, save_dems(file, m.dems))
        ELSE Result(m.code, file)

add_dem_note(id, data, file, t) ==
    LET text == strip(Get(data, "text", <<>>))
        clean_text == _clean_note_text(text)
    IN  IF text = <<>> THEN Result(400, file)
        ELSE _update_dem(id, [fn |-> "add_note", text |-> clean_text], file, t)

edit_dem_note(id, data, file, t) ==
    LET new_text == strip(Get(data, "text", <<>>))
        clean_text == _clean_note_text(new_text)
    IN  IF "index" \notin DOMAIN data \/ new_text = <<>>
        THEN Result(400, file)
        ELSE _update_dem(id,
                [fn |-> "edit_note", index |-> data.index, text |-> clean_text],
                file, t)

delete_dem_note(id, data, file, t) ==
    IF "index" \notin DOMAIN data THEN Result(400, file)
    ELSE _update_dem(id, [fn |-> "delete_note", index |-> data.index],
                     file, t)

update_dem(id, data, file, t) ==
    _update_dem(id, [fn |-> "update", data |-> data], file, t)

archive_dem(id, file, t) ==
    _update_dem(id, [fn |-> "archive"], file, t)

restore_dem(id, file, t) ==
    _update_dem(id, [fn |-> "restore"], file, t)

\* removes the first record with the id only
delete_first_only(id, file) ==
    LET dems == load_dems(file)
    IN  IF id \notin Ids(dems) THEN Result(404, file)
        ELSE LET i == First(dems, id)
             IN  Result(200, save_dems(file,
                    SubSeq(dems, 1, i - 1) \o SubSeq(dems, i + 1, Len(dems))))

delete_dem(id, file) ==
    LET dems == load_dems(file)
        new_dems == SelectSeq(dems, LAMBDA d : Get(d, "id", "") # id)
    IN  IF Len(new_dems) = Len(dems) THEN Result(404, file)
        ELSE Result(200, save_dems(file, new_dems))

\* has_file: the request carries a file; llm_ok: the summarization call works
attach_doc(id, has_file, llm_ok, file, t) ==
    LET summary == IF llm_ok THEN "summary" ELSE PLACEHOLDER
    IN  IF ~has_file THEN Result(400, file)
        ELSE _update_dem(id,
                [fn |-> "attach", filename |-> "doc.txt", summary |-> summary],
                file, t)

\* dem_attach_doc of the DEM variant: the failure of the completion call is
\* answered before the collection is read; a worked call stores the analysis
\* and a note on the first record of the id
dem_attach_doc(proj_id, has_file, llm_ok, file, t) ==
    LET projects == load_dems(file)
        i == First(projects, proj_id)
        p == projects[i]
        note == [text |-> <<"AI analysis generated from attached document.">>,
                 created_at |-> isoformat(t)]
        found == Put(Put(Put(p, "doc_ai", "analysis"),
                         "updated_at", isoformat(t)),
                     "notes", Append(Get(p, "notes", <<>>), note))
    IN  IF ~has_file THEN Result(400, file)
        ELSE IF ~llm_ok THEN Result(500, file)
        ELSE IF proj_id \notin Ids(projects) THEN Result(404, file)
        ELSE Result(200, save_dems(file, [projects EXCEPT ![i] = found]))

delete_dem_summary(id, file, t) ==
    _update_dem(id, [fn |-> "summary_delete"], file, t)

\* by_id[pid] = incoming on an insertion-ordered dict kept as a sequence
DictSet(by_id, pid, incoming) ==
    IF \E k \in 1..Len(by_id) : by_id[k].key = pid
    THEN [k \in 1..Len(by_id) |->
            IF by_id[k].key = pid THEN [key |-> pid, val |-> incoming]
            ELSE by_id[k]]
    ELSE Append(by_id, [key |-> pid, val |-> incoming])

RECURSIVE DictOf(_, _)
DictOf(by_id, records) ==
    IF records = <<>> THEN by_id
    ELSE DictOf(DictSet(by_id, Get(Head(records), "id", ""), Head(records)),
                Tail(records))

RECURSIVE Merge(_, _, _)
Merge(by_id, projects, t) ==
    IF projects = <<>> THEN by_id
    ELSE LET incoming == Head(projects)
             has_id == Get(incoming, "id", "") # ""
             pid == IF has_id THEN incoming.id ELSE new_id(t)
             rec == IF has_id THEN incoming ELSE Put(incoming, "id", pid)
         IN  Merge(DictSet(by_id, pid, rec), Tail(projects), t)

import_dems_json(projects, file, t) ==
    LET current == load_dems(file)
        by_id == DictOf(<<>>,
                    SelectSeq(current, LAMBDA d : Get(d, "id", "") # ""))
        merged == Merge(by_id, projects, t)
        merged_list == [k \in 1..Len(merged) |-> merged[k].val]
    IN  Result(200, save_dems(file, merged_list))

\* ---------------------------------------------------------------- views
IsArchived(d) == Get(d, "archived", FALSE)

\* a listing that forgets the archived flag
get_dems_unfiltered(file, archived, t) ==
    LET sel == load_dems(file)
    IN  [k \in 1..Len(sel) |-> enrich_dem(sel[k], t)]

get_dems_filtered(file, archived, t) ==
    LET sel == SelectSeq(load_dems(file), LAMBDA d : IsArchived(d) = archived)
    IN  [k \in 1..Len(sel) |-> enrich_dem(sel[k], t)]

\* a report input that forgets the archived filter
all_dems(file) == load_dems(file)

\* the records dem_report and dem_download hand to the report builders
active_dems(file) == SelectSeq(load_dems(file), LAMBDA d : ~IsArchived(d))

\* --------------------------------------------------------------- reports
\* A report is the sequence of its lines, a line a record of its label and
\* the values it prints; the header date and the fixed
\* paragraphs and rules of the text are left out.
NO_PROJECTS == "There are currently no DEM projects registered."
NO_COMMENT == "No AI comment available."

\* generate_ai_comment: the completion call fails, the except branch answers
generate_ai_comment(dem, llm_ok) == IF llm_ok THEN "comment" ELSE NO_COMMENT

\* str(d.get("priority") or "2")
priority_or_2(d) == IF Get(d, "priority", "") = "" THEN "2" ELSE d.priority

\* number of records of dems with priority pr
priority_count(dems, pr) ==
    Cardinality({k \in 1..Len(dems) : priority_or_2(dems[k]) = pr})

\* number of records of dems whose sla_breached is there and true
breached_count(dems) ==
    Cardinality({k \in 1..Len(dems) : Get(dems[k], "sla_breached", FALSE)})

overview_line(e) ==
    [line |-> "overview", name |-> Get(e, "name", "(no name)"),
     status |-> Get(e, "status", "-"), priority |-> Get(e, "priority", "2"),
     latest |-> IF Get(e, "notes", <<>>) # <<>>
                THEN _format_note(e.notes[Len(e.notes)])
                ELSE <<"No recent notes registered.">>]

\* the lines of one "DEM:" block of section 2
detail_block(e) ==
    LET raw_notes == Get(e, "notes", <<>>)
        formatted == [k \in 1..Len(raw_notes) |-> _format_note(raw_notes[k])]
        first == IF Len(formatted) >= 2 THEN Len(formatted) - 1 ELSE 1
        last_two == SubSeq(formatted, first, Len(formatted))
    IN  <<[line |-> "DEM:", name |-> Get(e, "name", "(no name)")],
          [line |-> "Duration (days):", days |-> Get(e, "duration_days", None)],
          [line |-> "DEM Status:", status |-> Get(e, "status", "-")],
          [line |-> "Priority (1-4):", priority |-> Get(e, "priority", "2")],
          [line |-> "SLA Status:", breached |-> Get(e, "sla_breached", FALSE)]>>
        \o (IF raw_notes # <<>>
            THEN <<[line |-> "Last Notes (most recent entries):"]>>
                 \o [k \in 1..Len(last_two) |->
                        [line |-> "-", note |-> last_two[k]]]
            ELSE <<[line |-> "Last Notes: (no notes registered)"]>>)
        \o <<[line |-> "----"]>>

RECURSIVE detail_blocks(_)
detail_blocks(enriched) ==
    IF enriched = <<>> THEN <<>>
    ELSE detail_block(Head(enriched)) \o detail_blocks(Tail(enriched))

\* a report that goes through a dict keyed by id: one record per id
report_records_by_id(dems) ==
    SelectSeq(dems, LAMBDA d : d = dems[First(dems, Get(d, "id", ""))])

\* enriched = [enrich_dem(d) for d in dems]: every record handed in
report_records(dems) == dems

\* enriched = [enrich_dem(d) for d in dems]
RECURSIVE enrich_all(_, _)
enrich_all(dems, t) ==
    IF dems = <<>> THEN <<>>
    ELSE <<enrich_dem(Head(dems), t)>> \o enrich_all(Tail(dems), t)

\* st = e.get("status") or "N/A"
status_of(e) == IF Get(e, "status", "") = "" THEN "N/A" ELSE e.status

\* status_counts[st] = status_counts.get(st, 0) + 1 on a dict, which keeps
\* its keys in the order of their first insertion
count_status(counts, st) ==
    IF \E k \in 1..Len(counts) : counts[k].name = st
    THEN [k \in 1..Len(counts) |->
            IF counts[k].name = st
            THEN [name |-> st, cnt |-> counts[k].cnt + 1] ELSE counts[k]]
    ELSE Append(counts, [name |-> st, cnt |-> 1])

RECURSIVE status_counts(_)
status_counts(enriched) ==
    IF enriched = <<>> THEN <<>>
    ELSE count_status(status_counts(SubSeq(enriched, 1, Len(enriched) - 1)),
                      status_of(enriched[Len(enriched)]))

\* a sort that puts an item before the items of equal count found before it
insert_before_ties(items, x) ==
    LET ahead == Cardinality({k \in 1..Len(items) : items[k].cnt > x.cnt})
    IN  SubSeq(items, 1, ahead) \o <<x>> \o SubSeq(items, ahead + 1, Len(items))

\* one step of the stable sort by count, largest first: x goes behind every
\* item of the sorted part whose count is not smaller
insert_by_count(items, x) ==
    LET ahead == Cardinality({k \in 1..Len(items) : items[k].cnt >= x.cnt})
    IN  SubSeq(items, 1, ahead) \o <<x>> \o SubSeq(items, ahead + 1, Len(items))

\* sorted(items, key=lambda kv: kv[1], reverse=True)
RECURSIVE sorted_by_count(_)
sorted_by_count(items) ==
    IF items = <<>> THEN <<>>
    ELSE insert_by_count(sorted_by_count(SubSeq(items, 1, Len(items) - 1)),
                         items[Len(items)])

\* sorted(...)[:3]
top_status(enriched) ==
    SubSeq(sorted_by_count(status_counts(enriched)), 1,
           Min({3, Len(sorted_by_count(status_counts(enriched)))}))

\* the lines of the report on the enriched records
report_lines(enriched) ==
    <<[line |-> "1. Projects Resume"],
      [line |-> "Total active DEMs:", n |-> Len(enriched)],
      [line |-> "P1 (Critical):", n |-> priority_count(enriched, "1")],
      [line |-> "P2 (High):", n |-> priority_count(enriched, "2")],
      [line |-> "P3 (Medium):", n |-> priority_count(enriched, "3")],
      [line |-> "P4 (Low):", n |-> priority_count(enriched, "4")],
      [line |-> "SLA window (last 5 days):",
       ok |-> Len(enriched) - breached_count(enriched),
       breached |-> breached_count(enriched)],
      [line |-> "Most common DEM Status:", top |-> top_status(enriched)]>>
    \o [k \in 1..Len(enriched) |-> overview_line(enriched[k])]
    \o <<[line |-> "2. Projects Details"]>>
    \o detail_blocks(enriched)

build_portfolio_text(dems, t) ==
    IF dems = <<>> THEN <<[line |-> NO_PROJECTS]>>
    ELSE CHOOSE text \in
            {report_lines(enriched) :
                enriched \in {enrich_all(report_records(dems), t)}} : TRUE

\* the last note of a card: notes[-1]["text"], notes[-1]["date"]
card_note(p) ==
    LET notes == Get(p, "notes", <<>>)
    IN  IF notes = <<>> THEN [text |-> <<"No notes available.">>, date |-> "N/A"]
        ELSE notes[Len(notes)]

\* a note without "text" or "date", or a legacy str note: KeyError, TypeError
card_raises(p) ==
    LET notes == Get(p, "notes", <<>>)
    IN  notes # <<>> /\ ~({"text", "date"} \subseteq DOMAIN notes[Len(notes)])

\* llm_ok[k]: the completion call for the k-th project works
build_portfolio_html(projects, t, llm_ok) ==
    IF \E k \in 1..Len(projects) : card_raises(projects[k]) THEN Raise
    ELSE [active |-> Len(projects),
          p1 |-> Cardinality({k \in 1..Len(projects) :
                                Get(projects[k], "priority", "") = "1"}),
          breached |-> breached_count(projects),
          cards |-> [k \in 1..Len(projects) |->
                       LET p == projects[k]
                       IN  [id |-> Get(p, "id", "N/A"),
                            name |-> Get(p, "name", "Untitled"),
                            status |-> Get(p, "status", "Unknown"),
                            priority |-> Get(p, "priority", "4"),
                            last_note |-> card_note(p).text,
                            last_date |-> card_note(p).date,
                            comment |-> generate_ai_comment(p, llm_ok[k])]]]

generate_charts(dems) ==
    [priority |-> [pr \in {"1", "2", "3", "4"} |-> priority_count(dems, pr)],
     sla |-> [OK |-> Len(dems) - breached_count(dems),
              Breached |-> breached_count(dems)]]

\* dem_report: the HTML panel of the active records
dem_report(file, t, llm_ok) ==
    build_portfolio_html(active_dems(file), t, llm_ok)

\* dem_download: the text and the charts of the active records
dem_download(file, t) ==
    [text |-> build_portfolio_text(active_dems(file), t),
     charts |-> generate_charts(active_dems(file))]

headers ==
    <<"ID", "Name", "Title", "Sponsor", "Requester", "BA Owner", "Cost Center",
      "Status", "Workflow Status", "Current Task Owner", "Start Date",
      "Duration Days", "SLA", "Last Note">>

\* dem.get(key): None without the key
excel_row(dem) ==
    <<Get(dem, "id", None), Get(dem, "name", None), Get(dem, "title", None),
      Get(dem, "sponsor", None), Get(dem, "requester", None),
      Get(dem, "ba_owner", None), Get(dem, "cost_center", None),
      Get(dem, "status", None), Get(dem, "workflow_status", None),
      Get(dem, "current_owner", None), Get(dem, "start_date", None),
      Get(dem, "duration_days", None),
      IF Get(dem, "sla_breached", FALSE) THEN "Breached" ELSE "OK",
      Get(dem, "last_note", None)>>

\* the rows of the sheet "Active DEMs"
export_active_excel(file, t) ==
    LET active == get_dems_filtered(file, FALSE, t)
    IN  <<headers>> \o [k \in 1..Len(active) |-> excel_row(active[k])]

\* ------------------------------------------------------------ request inputs
Bracket == <<"[", "d">> \o SEP

RECURSIVE Brackets(_, _)
Brackets(k, body) == IF k = 0 THEN body ELSE Bracket \o Brackets(k - 1, body)

StoreTexts == {<<"h">>}
NoteTexts ==
    {<<>>, <<" ">>, <<"h">>, Brackets(1, <<"h">>), Brackets(MaxBrackets, <<"h">>)}

CreateData(texts) ==
    {[x \in {} |-> ""]} \cup {[initial_note |-> x] : x \in texts}

StoreIndexes == {0}
NoteIndexes == {-1, 0, 1, 2, 5}

\* request bodies with a text and, for idx # {}, with or without an index
NoteData(texts, idx) ==
    {[text |-> x] : x \in texts}
    \cup {[text |-> x, index |-> i] : x \in texts, i \in idx}

IndexData(idx) == {[x \in {} |-> 0]} \cup {[index |-> i] : i \in idx}

UpdateData == {[status |-> "Done", priority |-> "3", id |-> "other"]}

\* payloads of /api/dems/import: lists of records as a backup file or a hand
\* written file may carry them (with or without id; old, missing or future
\* stamps)
Backup == new_dem([x \in {} |-> ""], 0)

ImportRecords == {[status |-> "Idea"], Backup}

Payloads ==
    {<<>>} \cup {<<r>> : r \in ImportRecords}
    \cup {<<[status |-> "Idea"],
             [status |-> "Done", updated_at |-> isoformat(MaxClock + 1)]>>}

\* ids a request can name: the ids create can assign within the clock bound,
\* whether stored, deleted or not yet assigned
IdInputs == {new_id(t) : t \in 0..MaxClock}

NoData == [x \in {} |-> 0]
NoResp == [op |-> "none", id |-> "", code |-> 0, data |-> NoData]
NoArg == [none |-> TRUE]
NoOut == [done |-> FALSE]
Threads == {1, 2}
Idle == [pc |-> "idle"]

\* records, notes and documents held by the collection
RECURSIVE Items(_)
Items(file) ==
    IF file = <<>> THEN 0
    ELSE LET d == Head(file)
         IN  1 + Len(Get(d, "notes", <<>>))
             + (IF "documents" \in DOMAIN d /\ IsList(d.documents)
                THEN Len(d.documents.list) ELSE 0)
             + Items(Tail(file))

NotesOf(file, id) == Get(file[First(file, id)], "notes", <<>>)

DocsOf(file, id) ==
    LET d == file[First(file, id)]
    IN  IF "documents" \in DOMAIN d /\ IsList(d.documents)
        THEN d.documents.list ELSE <<>>

\* the persisted collection: what load_dems returns from the file as it is
Stored == load_dems(dems_file)

\* ------------------------------------------------------------------ actions
\* data: the request body of a note request, NoData otherwise
Respond(op, id, data, r) ==
    /\ dems_file' = r.file
    /\ resp' = [op |-> op, id |-> id, code |-> r.code, data |-> data]
    /\ UNCHANGED <<now, threads, arg, out>>

Tick(max) ==
    /\ now < max
    /\ now' = now + 1
    /\ UNCHANGED <<dems_file, resp, gone, threads, arg, out>>

Create(texts, maxd) ==
    /\ Len(Stored) < maxd
    /\ \E data \in CreateData(texts) :
          /\ Items(load_dems(create_dem(data, dems_file, now).file)) <= MaxItems
          /\ Respond("create", new_id(now), NoData, create_dem(data, dems_file, now))
          /\ gone' = gone \ {new_id(now)}

AddNote(texts, maxn) ==
    \E id \in IdInputs, data \in NoteData(texts, {}) :
       /\ id \in Ids(Stored) => Items(Stored) <= maxn
       /\ Respond("add_note", id, data, add_dem_note(id, data, dems_file, now))
       /\ UNCHANGED gone

EditNote(texts, idx) ==
    \E id \in IdInputs, data \in NoteData(texts, idx) :
       /\ Respond("edit_note", id, data, edit_dem_note(id, data, dems_file, now))
       /\ UNCHANGED gone

DeleteNote(idx) ==
    \E id \in IdInputs, data \in IndexData(idx) :
       /\ Respond("delete_note", id, data,
                  delete_dem_note(id, data, dems_file, now))
       /\ UNCHANGED gone

Update ==
    \E id \in IdInputs, data \in UpdateData :
       /\ Respond("update", id, NoData, update_dem(id, data, dems_file, now))
       /\ UNCHANGED gone

Archive ==
    \E id \in IdInputs :
       /\ Respond("archive", id, NoData, archive_dem(id, dems_file, now))
       /\ UNCHANGED gone

Restore ==
    \E id \in IdInputs :
       /\ Respond("restore", id, NoData, restore_dem(id, dems_file, now))
       /\ UNCHANGED gone

Delete ==
    \E id \in IdInputs :
       LET r == delete_dem(id, dems_file)
       IN  /\ Respond("delete", id, NoData, r)
           /\ gone' = IF r.code = 200 THEN gone \cup {id} ELSE gone

Attach ==
    \E id \in IdInputs, has_file \in BOOLEAN, llm_ok \in BOOLEAN :
       /\ id \in Ids(Stored) => Items(Stored) < MaxItems
       /\ Respond("attach", id, [has_file |-> has_file],
                  attach_doc(id, has_file, llm_ok, dems_file, now))
       /\ UNCHANGED gone

SummaryDelete ==
    \E id \in IdInputs :
       /\ Respond("summary_delete", id, NoData,
                  delete_dem_summary(id, dems_file, now))
       /\ UNCHANGED gone

Import ==
    \E projects \in Payloads :
       LET r == import_dems_json(projects, dems_file, now)
       IN  /\ Len(load_dems(r.file)) <= MaxDems
           /\ Respond("import", "", NoData, r)
           /\ gone' = gone \ Ids(load_dems(r.file))

\* ----------------------------------------------- lifecycle specification
Init ==
    /\ now = 0
    /\ dems_file = ABSENT
    /\ resp = NoResp
    /\ gone = {}
    /\ threads = [t \in Threads |-> Idle]
    /\ arg = NoArg
    /\ out = NoOut

Next ==
    \/ Tick(MaxClock)
    \/ Create(StoreTexts, MaxDems)
    \/ AddNote(StoreTexts, MaxItems - 1)
    \/ EditNote(StoreTexts, StoreIndexes)
    \/ DeleteNote(StoreIndexes)
    \/ Update
    \/ Archive
    \/ Restore
    \/ Delete
    \/ Attach
    \/ SummaryDelete
    \/ Import

Spec == Init /\ [][Next]_vars

\* --------------------------------------------------- notes specification
\* one record and the note requests on it, with the texts and indexes a
\* request can carry
NextNotes ==
    \/ Tick(MaxClock)
    \/ Create(NoteTexts, 1)
    \/ AddNote(NoteTexts, MaxNotes)
    \/ EditNote(NoteTexts, NoteIndexes)
    \/ DeleteNote(NoteIndexes)

SpecNotes == Init /\ [][NextNotes]_vars

\* ------------------------------------------------ enrichment specification
\* the pure functions on records as the store or an imported file can hold
EnrichTexts == {<<>>} \cup {Brackets(k, <<"h">>) : k \in 0..MaxBrackets}

EnrichNotes ==
    {[text |-> x, date |-> "0"] : x \in EnrichTexts}
    \cup {[text |-> x] : x \in EnrichTexts}
    \cup {[legacy |-> x] : x \in EnrichTexts}

Stamps == {EMPTY, [raw |-> "garbage"]} \cup {isoformat(t) : t \in 0..2}
StartDates == {EMPTY, [raw |-> "garbage"], [ymd |-> 0], [ymd |-> 1]}
Base == [id |-> "dem_0", status |-> "Idea"]

TimeInputs ==
    {Base} \cup {Put(Base, "updated_at", u) : u \in Stamps}
    \cup {Put(Base, "created_at", c) : c \in Stamps}
    \cup {Put(Put(Base, "updated_at", u), "created_at", c) :
            u \in Stamps, c \in Stamps}
    \cup {Put(Base, "start_date", sd) : sd \in StartDates}

NoteInputs ==
    {Put(Base, "notes", <<>>)}
    \cup {Put(Base, "notes", <<n>>) : n \in EnrichNotes}
    \cup {Put(Base, "notes", <<m, n>>) : m \in EnrichNotes, n \in EnrichNotes}

DefaultInputs ==
    {Put(Put(Put(Base, "archived", a), "priority", p), "documents", ds) :
        a \in BOOLEAN, p \in {"", "1", "7"},
        ds \in {[list |-> <<>>], [other |-> "x"],
                [list |-> <<[filename |-> "doc.txt", summary |-> "summary",
                             date |-> "0"]>>]}}

EnrichInputs == TimeInputs \cup NoteInputs \cup DefaultInputs

Enrich ==
    /\ ~out.done
    /\ out' = [done |-> TRUE, at |-> now,
               once |-> enrich_dem(arg, now),
               twice |-> enrich_dem(enrich_dem(arg, now), now),
               project |-> _enrich_project(arg, now)]
    /\ UNCHANGED <<now, dems_file, resp, gone, threads, arg>>

InitEnrich ==
    /\ now = 0
    /\ dems_file = ABSENT
    /\ resp = NoResp
    /\ gone = {}
    /\ threads = [t \in Threads |-> Idle]
    /\ arg \in EnrichInputs
    /\ out = NoOut

NextEnrich == Tick(MaxNow) \/ Enrich

SpecEnrich == InitEnrich /\ [][NextEnrich]_vars

\* ------------------------------------------------ interleaved specification
\* two requests to /api/dems/projects/<id>/update served by two threads: the
\* load and the save of _update_dem are separate steps, nothing orders them
ThreadData(t) == [status |-> IF t = 1 THEN "T1" ELSE "T2"]

Load(t) ==
    /\ threads[t].pc = "idle"
    /\ \E id \in IdInputs :
          threads' = [threads EXCEPT ![t] =
                        [pc |-> "loaded", id |-> id, stale |-> FALSE,
                         local |-> load_dems(dems_file)]]
    /\ UNCHANGED <<now, dems_file, resp, gone, arg, out>>

Save(t) ==
    /\ threads[t].pc = "loaded"
    /\ LET id == threads[t].id
           m == mutate(id, [fn |-> "update", data |-> ThreadData(t)],
                       threads[t].local, now)
       IN  /\ dems_file' = IF m.code = 200 THEN save_dems(dems_file, m.dems)
                           ELSE dems_file
           /\ resp' = [op |-> "update", id |-> id, code |-> m.code,
                       data |-> NoData]
           /\ threads' =
                [u \in Threads |->
                    IF u = t
                    THEN [pc |-> "done", id |-> id, code |-> m.code,
                          stale |-> threads[t].stale]
                    ELSE IF threads[u].pc = "loaded" /\ m.code = 200
                         THEN [threads[u] EXCEPT !.stale = TRUE]
                         ELSE threads[u]]
    /\ UNCHANGED <<now, gone, arg, out>>

InitRace ==
    /\ now = TicksPerMs
    /\ \E n \in 1..2 :
          dems_file = save_dems(ABSENT, SubSeq(
             load_dems(create_dem(NoData,
                          create_dem(NoData, ABSENT, 0).file, TicksPerMs).file),
             1, n))
    /\ resp = NoResp
    /\ gone = {}
    /\ threads = [t \in Threads |-> Idle]
    /\ arg = NoArg
    /\ out = NoOut

NextRace ==
    \/ Tick(TicksPerMs + MaxClock)
    \/ \E t \in Threads : Load(t)
    \/ \E t \in Threads : Save(t)

SpecRace == InitRace /\ [][NextRace]_vars

\* ------------------------------------------------------ file specification
\* DEMS_FILE as a deployment can find it (absent, empty, blank, no JSON, cut
\* short, complete), loads, save(load()) and the creates and updates whose
\* write may fail.  arg records whether the file is a complete dump and the
\* collection of that dump; out is the result of the last load.
FileRecords ==
    {Backup,
     [Backup EXCEPT !.id = new_id(TicksPerMs), !.archived = TRUE,
                    !.notes = <<new_note(<<"h">>, 0)>>,
                    !.documents = [list |-> <<[filename |-> "doc.txt",
                                               summary |-> "summary",
                                               date |-> "0"]>>]]}

FileStores ==
    {<<>>} \cup {<<r>> : r \in FileRecords}
    \cup {<<r, q>> : r \in FileRecords, q \in FileRecords}

\* the outcomes of a write of dems: open fails, the write breaks off, or it
\* runs to its end
Cuts(dems) == -1..Len(json_dump(dems))

Broken == [intact |-> FALSE, saved |-> <<>>]
Intact(dems) == [intact |-> TRUE, saved |-> dems]

\* what arg records after a write of dems with outcome cut
Written(dems, cut) ==
    IF cut = Len(json_dump(dems)) THEN Intact(dems)
    ELSE IF cut < 0 THEN arg ELSE Broken

InitFile ==
    /\ now = 0
    /\ resp = NoResp
    /\ gone = {}
    /\ threads = [t \in Threads |-> Idle]
    /\ out = NoOut
    /\ \/ dems_file \in {ABSENT, [exists |-> TRUE, data |-> <<>>],
                          [exists |-> TRUE, data |-> <<WS>>],
                          [exists |-> TRUE, data |-> <<JUNK>>],
                          [exists |-> TRUE, data |-> <<WS, JUNK, WS>>]}
          /\ arg = Broken
       \/ \E dems \in FileStores :
             \/ /\ dems_file \in
                      {save_dems(ABSENT, dems),
                       [exists |-> TRUE,
                        data |-> <<WS>> \o json_dump(dems) \o <<WS, WS>>]}
                /\ arg = Intact(dems)
             \/ /\ \E cut \in 0..(Len(json_dump(dems)) - 1) :
                      dems_file = save_dems_error(ABSENT, dems, cut)
                /\ arg = Broken

LoadFile ==
    /\ out' = [done |-> TRUE, dems |-> load_dems(dems_file),
               intact |-> arg.intact, saved |-> arg.saved]
    /\ UNCHANGED <<now, dems_file, resp, gone, threads, arg>>

\* save_dems(load_dems())
RoundTrip ==
    /\ dems_file' = save_dems(dems_file, load_dems(dems_file))
    /\ arg' = Intact(load_dems(dems_file))
    /\ resp' = [op |-> "roundtrip", id |-> "", code |-> 0, data |-> NoData]
    /\ UNCHANGED <<now, gone, threads, out>>

\* a handler whose save_dems has the outcome cut
Persist(op, id, r, cut) ==
    \A dems \in {load_dems(r.file)} :
       /\ dems_file' = write(dems_file, dems, cut)
       /\ arg' = Written(dems, cut)
       /\ resp' = [op |-> op, id |-> id,
                   code |-> answer_after_save(r.code,
                                              cut = Len(json_dump(dems))),
                   data |-> [cut |-> cut, full |-> Len(json_dump(dems))]]
       /\ UNCHANGED <<now, gone, threads, out>>

CreateFile ==
    /\ Len(Stored) < MaxDems
    /\ \E data \in CreateData(StoreTexts) :
          LET r == create_dem(data, dems_file, now)
          IN  \E cut \in Cuts(load_dems(r.file)) :
                 Persist("create", new_id(now), r, cut)

UpdateFile ==
    \E id \in IdInputs, data \in UpdateData :
       LET r == update_dem(id, data, dems_file, now)
       IN  IF r.code = 200
           THEN \E cut \in Cuts(load_dems(r.file)) :
                   Persist("update", id, r, cut)
           ELSE /\ resp' = [op |-> "update", id |-> id, code |-> r.code,
                            data |-> NoData]
                /\ UNCHANGED <<now, dems_file, gone, threads, arg, out>>

NextFile ==
    \/ Tick(MaxClock)
    \/ LoadFile
    \/ RoundTrip
    \/ CreateFile
    \/ UpdateFile

SpecFile == InitFile /\ [][NextFile]_vars

\* ==================================================================== claims

\* the timestamp string enrich reads: updated_at, else created_at
StampOf(dem) == GetOr(dem, "updated_at", "created_at")

\* C1: enrich marks a record sla_breached exactly when now - updated_at is at
\* least 5 days (updated_at falling back to created_at): breached at exactly
\* 5 days, not breached below.
C1_SlaInclusive ==
    (out.done /\ IsIso(StampOf(arg))) =>
        (out.once.sla_breached <=> (out.at - StampOf(arg).iso >= SlaWindow))

\* the DEM variant's _enrich_project does include the boundary in "stale"
DemVariantInclusive ==
    (out.done /\ IsIso(Get(arg, "updated_at", EMPTY))) =>
        (out.project.stale <=> (out.at - arg.updated_at.iso >= SlaWindow))

DerivedFields ==
    {"notes", "last_note", "duration_days", "sla_breached", "archived",
     "priority", "documents"}

HasTimestampPrefix(text) == startswith(text, "[") /\ SepAt(text) # {}

\* C7: the enriched last_note of a record with notes is "[<note date>] - "
\* followed by a text that does not itself start with a timestamp bracket,
\* for every text submitted through create, add-note or edit-note.
C7_SinglePrefix ==
    \A k \in 1..Len(Stored) :
       LET notes == Get(Stored[k], "notes", <<>>)
           ln == enrich_dem(Stored[k], now).last_note
       IN  notes # <<>> =>
             /\ Len(ln) > 6
             /\ SubSeq(ln, 1, 6) = <<"[", notes[Len(notes)].date>> \o SEP
             /\ ~HasTimestampPrefix(SubSeq(ln, 7, Len(ln)))

\* C3: no two records of the persisted collection share an identifier, after
\* any sequence of requests (two creates or two id-less imported records in
\* the same millisecond included).
C3_UniqueIds ==
    \A i, j \in 1..Len(Stored) :
       i # j => Get(Stored[i], "id", "") # Get(Stored[j], "id", "")

\* the step is a request (not the passing of time)
IsRequest == now' = now

NoteOps == {"add_note", "edit_note", "delete_note"}

\* the request body fails validation against the notes the record holds
InvalidNoteRequest(op, data, notes) ==
    \/ op \in {"add_note", "edit_note"} /\ strip(Get(data, "text", <<>>)) = <<>>
    \/ op \in {"edit_note", "delete_note"}
       /\ ("index" \notin DOMAIN data
           \/ data.index < 0 \/ data.index >= Len(notes))

\* C4: a note request on a stored record that fails validation (empty text,
\* missing or out-of-range index) answers 400 and leaves the persisted
\* collection - the record, its notes, its updated_at - exactly as it was.
C4_ValidationNoMutation ==
    [][(/\ IsRequest
        /\ resp'.op \in NoteOps
        /\ resp'.id \in Ids(Stored)
        /\ InvalidNoteRequest(resp'.op, resp'.data,
                              NotesOf(Stored, resp'.id)))
       => (resp'.code = 400 /\ dems_file' = dems_file)]_vars

C4_Witness ==
    /\ resp.op = "edit_note" /\ resp.code = 400
    /\ resp.id \in Ids(Stored)
    /\ "index" \in DOMAIN resp.data /\ resp.data.index = 5
    /\ strip(resp.data.text) # <<>>
    /\ Len(NotesOf(Stored, resp.id)) = 2

\* the last_note the last element of a notes sequence gives
LastNoteOf(notes) ==
    IF notes = <<>> THEN <<>> ELSE _format_note(clean_note(notes[Len(notes)]))

\* effect of a successful note request on the notes of its record
NoteEffect(op, data, old, new, t) ==
    LET i == Get(data, "index", 0) + 1
        note == new_note(_clean_note_text(strip(Get(data, "text", <<>>))), t)
    IN  CASE op = "add_note" ->
               new = Append(old, note)
          [] op = "edit_note" ->
               /\ Len(new) = Len(old)
               /\ new[i] = note
               /\ \A j \in 1..Len(old) : j # i => new[j] = old[j]
          [] op = "delete_note" ->
               /\ Len(new) = Len(old) - 1
               /\ \A j \in 1..(i - 1) : new[j] = old[j]
               /\ \A j \in (i + 1)..Len(old) : new[j - 1] = old[j]

\* C8: last_note is derived from the last element of the notes sequence
\* (empty without notes); add appends at the end, edit at index i replaces
\* element i only, delete at index i moves every later note down by one and
\* leaves the earlier ones in place.
C8_LastNoteAndIndexes ==
    /\ [](\A k \in 1..Len(Stored) :
            enrich_dem(Stored[k], now).last_note
              = LastNoteOf(Get(Stored[k], "notes", <<>>)))
    /\ [][(IsRequest /\ resp'.op \in NoteOps /\ resp'.code = 200)
          => NoteEffect(resp'.op, resp'.data,
                        NotesOf(Stored, resp'.id),
                        NotesOf(Stored', resp'.id), now)]_vars

C8_Witness ==
    /\ resp.op = "delete_note" /\ resp.code = 200 /\ resp.data.index = 0
    /\ Len(NotesOf(Stored, resp.id)) = 2
    /\ enrich_dem(Stored[1], now).last_note # <<>>

Rec(file, id) == file[First(file, id)]

Range(seq) == {seq[k] : k \in 1..Len(seq)}

\* requests that go through _update_dem
MutatingOps ==
    {"add_note", "edit_note", "delete_note", "update", "archive", "restore",
     "attach", "summary_delete"}

\* C5: for every record the persisted updated_at never moves backwards over
\* any request (import included), and every successful mutation of the
\* record stamps it with the time of the request.
C5_UpdatedAtMonotone ==
    [][IsRequest =>
         \A id \in Ids(Stored) \cap Ids(Stored') :
            /\ Ts(Rec(Stored', id)) >= Ts(Rec(Stored, id))
            /\ Rec(Stored', id) # Rec(Stored, id)
                 => Ts(Rec(Stored', id)) = now]_vars

\* C5 as amended: the same for every request but import, for records whose
\* stamp is not later than the clock; a request that does not succeed on the
\* record leaves its updated_at as it was.
C5_UpdatedAtStamped ==
    [][(IsRequest /\ resp'.op # "import") =>
       \A before \in {Stored}, after \in {Stored'} :
         \A id \in Ids(before) \cap Ids(after) :
            LET old == Rec(before, id)
                new == Rec(after, id)
                hit == resp'.op \in MutatingOps /\ resp'.code = 200
                       /\ resp'.id = id
            IN  /\ Ts(old) <= now => Ts(new) >= Ts(old)
                /\ hit => Ts(new) = now
                /\ ~hit => new = old]_vars

C5_Witness ==
    /\ resp.op \in MutatingOps /\ resp.code = 200
    /\ Ts(Rec(Stored, resp.id)) = now
    /\ IsIso(Get(Rec(Stored, resp.id), "created_at", EMPTY))
    /\ Rec(Stored, resp.id).created_at.iso < now

ArchivedIds(file) ==
    {Get(file[k], "id", "") : k \in {j \in 1..Len(file) : IsArchived(file[j])}}

AddressedOps == MutatingOps \cup {"delete"}

\* the request passes the checks a handler makes before it looks the id up
PassesValidation(op, data) ==
    CASE op = "add_note" -> strip(Get(data, "text", <<>>)) # <<>>
      [] op = "edit_note" ->
            "index" \in DOMAIN data /\ strip(Get(data, "text", <<>>)) # <<>>
      [] op = "delete_note" -> "index" \in DOMAIN data
      [] op = "attach" -> data.has_file
      [] OTHER -> TRUE

\* C10: after a successful delete the id is gone from the persisted
\* collection, and every later request addressed to it answers 404 until a
\* create or an import brings the id back.
C10_DeletedNotFound ==
    /\ [](gone \cap Ids(Stored) = {})
    /\ [][(IsRequest /\ resp'.op \in AddressedOps /\ resp'.id \in gone)
            => resp'.code = 404]_vars

\* C10 as amended: such a request answers 404 when it passes the handler's
\* input validation and 400 when it does not; it never succeeds and never
\* writes the store.
C10_DeletedNeverServed ==
    /\ [](gone \cap Ids(Stored) = {})
    /\ [][(IsRequest /\ resp'.op \in AddressedOps /\ resp'.id \in gone)
            => /\ dems_file' = dems_file
               /\ resp'.code =
                    IF PassesValidation(resp'.op, resp'.data) THEN 404
                    ELSE 400]_vars

C10_Witness ==
    /\ resp.id \in gone
    /\ resp.op = "add_note" /\ resp.code = 404
    /\ Stored # <<>>

StatusOf(file, id) == Get(Rec(file, id), "status", "")

\* thread t has answered its caller with the updated record
Served(t) == threads[t].pc = "done" /\ threads[t].code = 200

\* C2: the load/mutate/save cycles of two concurrent updates are not
\* serialized: when a thread saves a collection it loaded before the other
\* thread's save, both callers have a success result and the persisted
\* collection lacks the first writer's change, whether the two updates name
\* the same record or different ones.
C2_LastSaveWins ==
    \A t, u \in Threads :
       (t # u /\ Served(t) /\ Served(u) /\ threads[u].stale)
          => StatusOf(Stored, threads[t].id) # ThreadData(t).status

C2_Witness ==
    \E t, u \in Threads :
       /\ Served(t) /\ Served(u) /\ threads[u].stale
       /\ threads[t].id # threads[u].id
       /\ StatusOf(Stored, threads[t].id) = "Idea"
       /\ StatusOf(Stored, threads[u].id) = ThreadData(u).status

\* C11: a request addressed by id (update, note add/edit/delete, archive,
\* restore, attach, summary delete, delete) whose id matches no stored record
\* answers 404 and leaves DEMS_FILE as it was.
C11_UnknownIdNotFound ==
    [][(IsRequest /\ resp'.op \in AddressedOps /\ resp'.id \notin Ids(Stored))
         => (resp'.code = 404 /\ dems_file' = dems_file)]_vars

\* C11 as amended: such a request leaves DEMS_FILE as it was and answers 404
\* when it passes the handler's input validation, 400 when it does not.
C11_UnknownIdNoWrite ==
    [][(IsRequest /\ resp'.op \in AddressedOps /\ resp'.id \notin Ids(Stored))
         => /\ dems_file' = dems_file
            /\ resp'.code =
                 IF PassesValidation(resp'.op, resp'.data) THEN 404 ELSE 400]_vars

C11_Witness ==
    /\ resp.op = "update" /\ resp.code = 404
    /\ Stored # <<>>
    /\ resp.id \notin Ids(Stored) \cup gone

\* C18: create answers 200 and appends one record after the stored ones,
\* with an id no stored record has, created_at = updated_at = the time of
\* the request, archived false and no notes.
C18_CreateFresh ==
    [][(IsRequest /\ resp'.op = "create") =>
         \A before \in {Stored}, after \in {Stored'} :
            /\ resp'.code = 200
            /\ Len(after) = Len(before) + 1
            /\ SubSeq(after, 1, Len(before)) = before
            /\ LET dem == after[Len(after)]
               IN  /\ dem.id = resp'.id
                   /\ dem.id \notin Ids(before)
                   /\ dem.created_at = isoformat(now)
                   /\ dem.updated_at = dem.created_at
                   /\ dem.archived = FALSE
                   /\ dem.notes = <<>>]_vars

\* C12: load never raises; it returns the empty sequence when DEMS_FILE is
\* absent, empty, blank, no JSON or cut short, and the collection of the dump
\* when the file is a complete dump.
C12_LoadTotal ==
    out.done => out.dems = IF out.intact THEN out.saved ELSE <<>>

C12_Witness ==
    /\ out.done /\ out.dems = <<>>
    /\ ~out.intact /\ ~arg.intact
    /\ dems_file.exists /\ Len(dems_file.data) >= 2
    /\ resp.op = "create" /\ resp.code = 200

\* C13: a create or an update whose write of DEMS_FILE fails (open fails or
\* the write breaks off) still answers 200.
C13_FailedSaveUnreported ==
    [][(/\ IsRequest
        /\ resp'.op \in {"create", "update"}
        /\ "cut" \in DOMAIN resp'.data
        /\ resp'.data.cut < resp'.data.full)
       => resp'.code = 200]_vars

\* the caller has a success result and the change is not in the file
C13_Witness ==
    /\ resp.op = "create" /\ resp.code = 200
    /\ resp.data.cut < resp.data.full
    /\ resp.id \notin Ids(Stored)
    /\ arg.intact

\* C19: save(load()) is idempotent on DEMS_FILE whatever the file holds: a
\* second save(load()) leaves the file the first one wrote, load returns the
\* same collection before and after, and for a complete dump that is the
\* collection of the dump, every record and field in place.
C19_RoundTripIdempotent ==
    [][(IsRequest /\ resp'.op = "roundtrip") =>
         \A after \in {load_dems(dems_file')} :
            /\ save_dems(dems_file', after) = dems_file'
            /\ after = load_dems(dems_file)
            /\ arg.intact => after = arg.saved]_vars

C19_Witness ==
    /\ resp.op = "roundtrip"
    /\ arg.intact /\ Len(arg.saved) = 2
    /\ arg.saved[1].archived # arg.saved[2].archived
    /\ Stored = arg.saved

\* ---------------------------------------------------- report specification
\* the report builders on collections the store can hold: created records,
\* records created in the same millisecond, imported records without a
\* priority, archived records, records with notes
Named(name, t) == Put(new_dem(NoData, t), "name", name)

NoPriority(d) == [k \in DOMAIN d \ {"priority"} |-> d[k]]

ReportRecords ==
    {Named("A", 0),
     Put(Named("B", 0), "priority", "1"),
     NoPriority(Named("C", 1)),
     Put(Named("D", 1), "archived", TRUE),
     Put(Named("E", 2), "notes",
         <<new_note(<<"x">>, 0), new_note(<<"y">>, 1), new_note(<<"z">>, 2)>>)}

ReportInputs ==
    {<<>>} \cup {<<d>> : d \in ReportRecords}
    \cup {<<d, e>> : d \in ReportRecords, e \in ReportRecords}

InitReport ==
    /\ now = 0
    /\ arg \in ReportInputs
    /\ dems_file = save_dems(ABSENT, arg)
    /\ resp = NoResp
    /\ gone = {}
    /\ threads = [t \in Threads |-> Idle]
    /\ out = NoOut

Produce(o) ==
    /\ out' = o
    /\ UNCHANGED <<now, dems_file, resp, gone, threads, arg>>

\* build_portfolio_text on the sequence handed in
BuildText ==
    Produce([done |-> TRUE, op |-> "text", at |-> now,
             text |-> build_portfolio_text(arg, now)])

\* GET /api/dems/report
Report ==
    \E llm_ok \in [1..Len(active_dems(dems_file)) -> BOOLEAN] :
       Produce([done |-> TRUE, op |-> "report", at |-> now, llm_ok |-> llm_ok,
                html |-> dem_report(dems_file, now, llm_ok)])

\* GET /api/dems/download/<fmt>
Download ==
    Produce([done |-> TRUE, op |-> "download", at |-> now,
             text |-> dem_download(dems_file, now).text,
             charts |-> dem_download(dems_file, now).charts])

\* GET /api/dems/export_active
ExportActive ==
    Produce([done |-> TRUE, op |-> "export", at |-> now,
             rows |-> export_active_excel(dems_file, now)])

NextReport == Tick(MaxNow) \/ BuildText \/ Report \/ Download \/ ExportActive

SpecReport == InitReport /\ [][NextReport]_vars

\* -------------------------------------------------- upstream specification
\* the requests that call the completion service, which works or fails
UpstreamStores ==
    {<<>>, <<Named("A", 0), Put(Named("B", 0), "priority", "1")>>}
    \cup {<<d>> : d \in ReportRecords}

InitUpstream ==
    /\ now = 0
    /\ arg = NoArg
    /\ dems_file \in {save_dems(ABSENT, dems) : dems \in UpstreamStores}
    /\ resp = NoResp
    /\ gone = {}
    /\ threads = [t \in Threads |-> Idle]
    /\ out = NoOut

UpstreamIds == {new_id(t) : t \in 0..2}

Upload(op, id, has_file, llm_ok, r) ==
    /\ Items(Stored) <= MaxItems
    /\ dems_file' = r.file
    /\ resp' = [op |-> op, id |-> id, code |-> r.code,
                data |-> [has_file |-> has_file, llm_ok |-> llm_ok]]
    /\ UNCHANGED <<now, gone, threads, arg, out>>

\* POST /api/dems/projects/<id>/attach_doc
AttachDoc ==
    \E id \in UpstreamIds, has_file \in BOOLEAN, llm_ok \in BOOLEAN :
       Upload("attach_doc", id, has_file, llm_ok,
              attach_doc(id, has_file, llm_ok, dems_file, now))

\* POST /api/dems/projects/<proj_id>/attach_doc of the DEM variant
DemAttachDoc ==
    \E id \in UpstreamIds, has_file \in BOOLEAN, llm_ok \in BOOLEAN :
       Upload("dem_attach_doc", id, has_file, llm_ok,
              dem_attach_doc(id, has_file, llm_ok, dems_file, now))

NextUpstream == Tick(MaxClock) \/ Report \/ AttachDoc \/ DemAttachDoc

SpecUpstream == InitUpstream /\ [][NextUpstream]_vars

\* the "DEM:" lines of a text report, in the order of the text
DemLines(text) == SelectSeq(text, LAMBDA l : l.line = "DEM:")

\* C14: build_portfolio_text on the empty sequence returns the fixed "no
\* projects registered" sentence and nothing else; on N >= 1 records the
\* detail section has exactly N "DEM:" blocks, the k-th block that of the
\* k-th input record, and the total count of the report is N.
C14_ReportBlocks ==
    (out.done /\ out.op = "text") =>
       IF arg = <<>> THEN out.text = <<[line |-> NO_PROJECTS]>>
       ELSE /\ Len(DemLines(out.text)) = Len(arg)
            /\ \A k \in 1..Len(arg) :
                  DemLines(out.text)[k].name = Get(arg[k], "name", "(no name)")
            /\ out.text[2] = [line |-> "Total active DEMs:", n |-> Len(arg)]

\* a report on two different records that carry the same id
C14_Witness ==
    /\ out.done /\ out.op = "text"
    /\ Len(arg) = 2 /\ arg[1] # arg[2] /\ arg[1].id = arg[2].id
    /\ Len(DemLines(out.text)) = 2

\* C15: the HTML report panel and the dashboard charts are computed from the
\* enriched records of the text report: their SLA-breached count is the
\* number of active records whose enriched sla_breached is true (the
\* "Breached" count of the text report), and the priority shown for a record
\* is its enriched priority.
C15_SameEnrichedSource ==
    \A enriched \in {get_dems_filtered(dems_file, FALSE, now)} :
       /\ (out.done /\ out.op = "report" /\ out.at = now /\ ~Raised(out.html)) =>
             /\ out.html.breached = breached_count(enriched)
             /\ \A k \in 1..Len(enriched) :
                   out.html.cards[k].priority = enriched[k].priority
       /\ (out.done /\ out.op = "download" /\ out.at = now) =>
             /\ out.charts.sla.Breached = breached_count(enriched)
             /\ enriched # <<>> =>
                   out.text[7].breached = out.charts.sla.Breached

C17_UpstreamAbsorbed ==
    [][/\ (out' # out /\ out'.op = "report" /\ ~Raised(out'.html)) =>
             /\ Len(out'.html.cards) = Len(active_dems(dems_file))
             /\ \A k \in 1..Len(out'.html.cards) :
                   ~out'.llm_ok[k] => out'.html.cards[k].comment = NO_COMMENT
       /\ (/\ IsRequest /\ out' = out
           /\ resp'.op \in {"attach_doc", "dem_attach_doc"}
           /\ resp'.data.has_file /\ ~resp'.data.llm_ok
           /\ resp'.id \in Ids(Stored)) =>
             \A before \in {Stored}, after \in {Stored'} :
                /\ resp'.code = 200
                /\ Len(DocsOf(after, resp'.id))
                      = Len(DocsOf(before, resp'.id)) + 1
                /\ DocsOf(after, resp'.id)[Len(DocsOf(after, resp'.id))].summary
                      = PLACEHOLDER]_vars

\* the same for the report and attach_doc of this variant alone
C17_Fin3Absorbed ==
    [][/\ (out' # out /\ out'.op = "report" /\ ~Raised(out'.html)) =>
             /\ Len(out'.html.cards) = Len(active_dems(dems_file))
             /\ \A k \in 1..Len(out'.html.cards) :
                   ~out'.llm_ok[k] => out'.html.cards[k].comment = NO_COMMENT
       /\ (/\ IsRequest /\ out' = out
           /\ resp'.op = "attach_doc"
           /\ resp'.data.has_file /\ ~resp'.data.llm_ok
           /\ resp'.id \in Ids(Stored)) =>
             \A before \in {Stored}, after \in {Stored'} :
                /\ resp'.code = 200
                /\ Len(DocsOf(after, resp'.id))
                      = Len(DocsOf(before, resp'.id)) + 1
                /\ DocsOf(after, resp'.id)[Len(DocsOf(after, resp'.id))].summary
                      = PLACEHOLDER]_vars

\* C20: enrich is total on malformed dates: with a start date that is
\* missing, empty or unparsable duration_days is null; with an updated
\* timestamp that is there and unparsable sla_breached (stale in the DEM
\* variant) is false; in both cases enrich returns the record with both
\* fields; with a start date that parses as a day, duration_days is the
\* whole number of days from that day to today.
C20_EnrichTotalOnDates ==
    out.done =>
       LET start_date == Get(arg, "start_date", EMPTY)
           updated_str == GetOr(arg, "updated_at", "created_at")
           updated_at == Get(arg, "updated_at", EMPTY)
       IN  /\ {"duration_days", "sla_breached"} \subseteq DOMAIN out.once
           /\ {"duration_days", "stale"} \subseteq DOMAIN out.project
           /\ ("ymd" \notin DOMAIN start_date) =>
                 out.once.duration_days = None
           /\ ({"ymd", "iso"} \cap DOMAIN start_date = {}) =>
                 out.project.duration_days = None
           /\ ("ymd" \in DOMAIN start_date) =>
                 /\ out.once.duration_days
                       = {(out.at \div TicksPerDay) - start_date.ymd}
                 /\ out.project.duration_days
                       = {(out.at - start_date.ymd * TicksPerDay)
                             \div TicksPerDay}
           /\ (updated_str # EMPTY /\ "raw" \in DOMAIN updated_str) =>
                 out.once.sla_breached = FALSE
           /\ (updated_at # EMPTY /\ "raw" \in DOMAIN updated_at) =>
                 out.project.stale = FALSE

\* a record whose updated_at does not parse, enriched after the window
C20_Witness ==
    /\ out.done /\ out.at > SlaWindow
    /\ Get(arg, "updated_at", EMPTY) = [raw |-> "garbage"]
    /\ out.once.sla_breached = FALSE
    /\ out.once.duration_days = None

\* C21: every enriched record has its defaulted fields whatever the raw
\* record lacks: archived is there (false when the raw record has none),
\* priority is not empty ("2" when the raw record has none or an empty one,
\* so also for a record created with no priority), documents is a list (the
\* empty list when the raw record has none or something that is no list);
\* a field the raw record does carry well-formed is kept.
C21_EnrichedDefaults ==
    out.done =>
       /\ {"archived", "priority", "documents"} \subseteq DOMAIN out.once
       /\ out.once.archived = (IF "archived" \in DOMAIN arg
                               THEN arg.archived ELSE FALSE)
       /\ out.once.priority # ""
       /\ out.once.priority
             = (IF "priority" \in DOMAIN arg /\ arg.priority # ""
                THEN arg.priority ELSE "2")
       /\ "list" \in DOMAIN out.once.documents
       /\ out.once.documents
             = (IF "documents" \in DOMAIN arg /\ "list" \in DOMAIN arg.documents
                THEN arg.documents ELSE [list |-> <<>>])
       /\ \A data \in {NoData, [priority |-> ""]} :
             enrich_dem(new_dem(data, out.at), out.at).priority = "2"

\* a record stored with an empty priority and documents that are no list
C21_Witness ==
    /\ out.done
    /\ "priority" \in DOMAIN arg /\ arg.priority = ""
    /\ "list" \notin DOMAIN arg.documents
    /\ out.once.priority = "2"
    /\ out.once.documents = [list |-> <<>>]

\* C22: the id and the created_at of a record are immutable under every
\* single-record mutation: after a successful note add, edit or delete, field
\* update (whatever keys the payload carries, "id" included), archive,
\* restore, attach or summary delete, the collection has the same length and
\* every record of it, the mutated one included, the id and the created_at
\* (or the lack of one) it had before.
C22_IdAndCreatedAtKept ==
    [][(IsRequest /\ resp'.op \in MutatingOps /\ resp'.code = 200) =>
         \A before \in {Stored}, after \in {Stored'} :
            /\ Len(after) = Len(before)
            /\ resp'.id \in Ids(after)
            /\ \A k \in 1..Len(before) :
                  /\ ("id" \in DOMAIN after[k]) = ("id" \in DOMAIN before[k])
                  /\ Get(after[k], "id", "") = Get(before[k], "id", "")
                  /\ ("created_at" \in DOMAIN after[k])
                        = ("created_at" \in DOMAIN before[k])
                  /\ Get(after[k], "created_at", EMPTY)
                        = Get(before[k], "created_at", EMPTY)]_vars

\* a field update whose payload carried an id, on a record created earlier
C22_Witness ==
    /\ resp.op = "update" /\ resp.code = 200
    /\ \E data \in UpdateData : "id" \in DOMAIN data /\ data.id # resp.id
    /\ Get(Rec(Stored, resp.id), "status", "") = "Done"
    /\ IsIso(Get(Rec(Stored, resp.id), "created_at", EMPTY))
    /\ Rec(Stored, resp.id).created_at.iso < now

\* ------------------------------------------------------ read specification
\* the requests that read the store, and what enrich_dem leaves of the
\* objects it is handed

\* writes the cleaned text to the note it was handed
note_after_enrich_shared(n) == IF IsDict(n) THEN clean_note(n) ELSE n

\* a note of the caller after enrich_dem: nn = dict(n) is a copy, the write
\* nn["text"] = ... goes to the copy; a legacy str note is immutable
note_after_enrich(n) == n

\* the record a caller handed to enrich_dem, as it is after the call:
\* dem = dict(dem) rebinds the name to a shallow copy, every dem[key] = ...
\* goes to the copy; the note objects are shared with the caller's record
input_after_enrich(dem) ==
    IF "notes" \in DOMAIN dem
    THEN Put(dem, "notes",
             [k \in 1..Len(dem.notes) |-> note_after_enrich(dem.notes[k])])
    ELSE dem

ReadOps ==
    {"list", "list_archived", "report", "download", "export_active",
     "export_archived", "export_json"}

\* whether the read request op passes the loaded record d to enrich_dem:
\* the listings and XLSX exports those of their archived flag, the download
\* the active ones, the HTML report and the JSON export none
enriched_by(op, d) ==
    CASE op \in {"list", "export_active", "download"} -> ~IsArchived(d)
      [] op \in {"list_archived", "export_archived"} -> IsArchived(d)
      [] OTHER -> FALSE

\* a read request: DEMS_FILE as the handler leaves it (no read handler calls
\* save_dems) and the records it loaded as they are when it returns
read_request(op, file) ==
    [file |-> file,
     loaded |-> [k \in 1..Len(load_dems(file)) |->
                   IF enriched_by(op, load_dems(file)[k])
                   THEN input_after_enrich(load_dems(file)[k])
                   ELSE load_dems(file)[k]]]

InitReads ==
    /\ now = 0
    /\ arg \in NoteInputs
    /\ dems_file \in {save_dems(ABSENT, dems) :
                        dems \in {<<>>, <<arg>>,
                                  <<Put(arg, "archived", TRUE), arg>>}}
    /\ resp = NoResp
    /\ gone = {}
    /\ threads = [t \in Threads |-> Idle]
    /\ out = NoOut

Read ==
    \E op \in ReadOps :
       /\ dems_file' = read_request(op, dems_file).file
       /\ out' = [done |-> TRUE, op |-> op,
                  loaded |-> read_request(op, dems_file).loaded]
       /\ UNCHANGED <<now, resp, gone, threads, arg>>

\* enrich_dem(arg) called on a record the caller keeps
EnrichKept ==
    /\ out' = [done |-> TRUE, op |-> "enrich",
               raw |-> input_after_enrich(arg), once |-> enrich_dem(arg, now)]
    /\ UNCHANGED <<now, dems_file, resp, gone, threads, arg>>

NextReads == Tick(MaxClock) \/ Read \/ EnrichKept

SpecReads == InitReads /\ [][NextReads]_vars

OthersKept(before, after, op, id) ==
    CASE op = "create" ->
            /\ Len(after) >= Len(before)
            /\ SubSeq(after, 1, Len(before)) = before
      [] op = "delete" ->
            SelectSeq(after, LAMBDA d : Get(d, "id", "") # id)
               = SelectSeq(before, LAMBDA d : Get(d, "id", "") # id)
      [] OTHER ->
            /\ Len(after) = Len(before)
            /\ \A k \in 1..Len(before) :
                  (id \in Ids(before) /\ k = First(before, id))
                     \/ after[k] = before[k]

\* C24: every single-record operation that succeeds leaves all other
\* records of the persisted collection present, unchanged and in the same
\* order, in every reachable state of DEMS_FILE.
C24_OthersKept ==
    [][(IsRequest /\ resp'.op \in MutatingOps \cup {"create", "delete"}
        /\ resp'.code = 200) =>
         \A before \in {Stored}, after \in {Stored'} :
            OthersKept(before, after, resp'.op, resp'.id)]_vars

\* the same where every write of DEMS_FILE runs to its end
C24_OthersKeptWhenWritten ==
    [][(IsRequest /\ resp'.op \in MutatingOps \cup {"create", "delete"}
        /\ resp'.code = 200 /\ dems_file' # dems_file) =>
         \A before \in {Stored}, after \in {Stored'} :
            OthersKept(before, after, resp'.op, resp'.id)]_vars

\* -------------------------------------------------- priority specification
\* creates, updates and imports whose payload carries a priority, and the
\* text report of the store they leave; "7" stands for every string that is
\* none of the four levels
Priorities == {"", "1", "7"}

CreatePriority ==
    /\ Len(Stored) < MaxDems
    /\ \E p \in Priorities :
          Respond("create", new_id(now), NoData,
                  create_dem([priority |-> p], dems_file, now))
    /\ UNCHANGED gone

UpdatePriority ==
    \E id \in IdInputs, p \in Priorities :
       /\ Respond("update", id, NoData,
                  update_dem(id, [priority |-> p], dems_file, now))
       /\ UNCHANGED gone

ImportPriority ==
    \E id \in IdInputs, p \in Priorities :
       /\ Respond("import", id, NoData,
                  import_dems_json(<<[id |-> id, priority |-> p]>>,
                                   dems_file, now))
       /\ UNCHANGED gone

NextPriority ==
    \/ CreatePriority
    \/ UpdatePriority
    \/ ImportPriority
    \/ Download

SpecPriority == Init /\ [][NextPriority]_vars

\* C25: in every text report the buckets P1..P4 of the executive section sum
\* to the reported total: the priority of every reported record is one of
\* "1".."4", after any sequence of creates, updates and imports.
C25_BucketsSumToTotal ==
    (out.done /\ out.op = "download" /\ out.text # <<[line |-> NO_PROJECTS]>>)
       => /\ out.text[3].n + out.text[4].n + out.text[5].n + out.text[6].n
                = out.text[2].n
          /\ \A k \in 1..Len(out.text) :
                out.text[k].line = "overview"
                   => out.text[k].priority \in {"1", "2", "3", "4"}

(***************************************************************************)
(* The status specification: build_portfolio_text on sequences of records *)
(* whose status is one of three texts, the empty text, or missing.        *)
(***************************************************************************)
MaxStatusRecords == 5

NoStatus(d) == [k \in DOMAIN d \ {"status"} |-> d[k]]

StatusRecords ==
    {Put(new_dem(NoData, 0), "status", st) : st \in {"", "Open", "Hold", "Done"}}
       \cup {NoStatus(new_dem(NoData, 0))}

StatusInputs ==
    UNION {[1..n -> StatusRecords] : n \in 0..MaxStatusRecords}

InitStatus ==
    /\ now = 0
    /\ arg \in StatusInputs
    /\ dems_file = ABSENT
    /\ resp = NoResp
    /\ gone = {}
    /\ threads = [t \in Threads |-> Idle]
    /\ out = NoOut

SpecStatus == InitStatus /\ [][BuildText]_vars

\* C26: the "most common status" line lists min(3, number of distinct
\* statuses) statuses in non-increasing order of count, each with its exact
\* count over the reported records; no status left out has a larger count than
\* a listed one; a missing or empty status counts under "N/A"; among equal
\* counts the status that occurs first in the records comes first.
C26_TopStatuses ==
    (out.done /\ out.op = "text" /\ arg # <<>>)
       => \A top \in {out.text[8].top} :
          LET reported(j) ==
                  IF "status" \in DOMAIN arg[j] /\ arg[j].status # ""
                  THEN arg[j].status ELSE "N/A"
              statuses == {reported(j) : j \in 1..Len(arg)}
              count(st) == Cardinality({j \in 1..Len(arg) : reported(j) = st})
              first(st) == Min({j \in 1..Len(arg) : reported(j) = st})
              listed == {top[k].name : k \in 1..Len(top)}
          IN  /\ out.text[8].line = "Most common DEM Status:"
              /\ Len(top) = Min({3, Cardinality(statuses)})
              /\ listed \subseteq statuses
              /\ Cardinality(listed) = Len(top)
              /\ \A k \in 1..Len(top) : top[k].cnt = count(top[k].name)
              /\ \A k \in 1..Len(top) - 1 :
                    \/ top[k].cnt > top[k + 1].cnt
                    \/ /\ top[k].cnt = top[k + 1].cnt
                       /\ first(top[k].name) < first(top[k + 1].name)
              /\ \A st \in statuses \ listed : \A k \in 1..Len(top) :
                    \/ count(st) < top[k].cnt
                    \/ /\ count(st) = top[k].cnt
                       /\ first(top[k].name) < first(st)

\* four distinct statuses, one of them missing: the status seen twice is
\* listed first although it occurs last, "N/A" is listed by first occurrence
\* and the last of the tied statuses is left out
C26_Witness ==
    /\ out.done /\ out.op = "text" /\ Len(arg) = 5
    /\ "status" \notin DOMAIN arg[1]
    /\ out.text[8].top = <<[name |-> "Done", cnt |-> 2],
                           [name |-> "N/A", cnt |-> 1],
                           [name |-> "Open", cnt |-> 1]>>
    /\ arg[3].status = "Hold"

(***************************************************************************)
(* The import specification: creates, imports of payloads whose records   *)
(* carry an id or none, and the import of what export_dems_json sends.    *)
(***************************************************************************)
MaxImported == 3

\* GET /api/dems/export_json: json.dumps(load_dems() or [])
export_dems_json(file) == json_dump(load_dems(file))

ImportJsonRecords ==
    {[status |-> "Idea"], [status |-> "Done"],
     [id |-> new_id(0), status |-> "Hold"],
     [id |-> new_id(1), status |-> "Hold"],
     [id |-> "x1", status |-> "New"]}

ImportPayloads == UNION {[1..n -> ImportJsonRecords] : n \in 0..2}

\* POST /api/dems/import with {"projects": projects}
ImportJson ==
    \E projects \in ImportPayloads :
       LET r == import_dems_json(projects, dems_file, now)
       IN  /\ Len(load_dems(r.file)) <= MaxImported
           /\ Respond("import", "", [projects |-> projects], r)
           /\ UNCHANGED gone

\* the same with the list that export_dems_json has just sent
ReImport ==
    \E projects \in {json_loads(export_dems_json(dems_file)).value} :
       /\ Respond("reimport", "", [projects |-> projects],
                  import_dems_json(projects, dems_file, now))
       /\ UNCHANGED gone

NextImport ==
    \/ Tick(MaxClock)
    \/ CreatePriority
    \/ ImportJson
    \/ ReImport

SpecImport == Init /\ [][NextImport]_vars

\* C27: an import keeps every stored record whose id is not in the payload,
\* stores each id of the payload once, with a record of the payload, adds one
\* record under a generated id for every payload record without id, and the
\* import of the exported list leaves the collection as it was.
C27_ImportMerges ==
    [][(IsRequest /\ resp'.op \in {"import", "reimport"} /\ resp'.code = 200) =>
         \A before \in {Stored}, after \in {Stored'},
            projects \in {resp'.data.projects} :
            LET with_id == {k \in 1..Len(projects) : "id" \in DOMAIN projects[k]}
                anon == (1..Len(projects)) \ with_id
                ids == {projects[k].id : k \in with_id}
                added == {j \in 1..Len(after) :
                             after[j].id \notin ids \cup Ids(before)}
            IN  /\ \A k \in 1..Len(before) :
                      before[k].id \notin ids
                         => \E j \in 1..Len(after) : after[j] = before[k]
                /\ \A id \in ids :
                      /\ Cardinality({j \in 1..Len(after) : after[j].id = id}) = 1
                      /\ \E j \in 1..Len(after), k \in with_id :
                            after[j] = projects[k] /\ projects[k].id = id
                /\ Cardinality(added) = Cardinality(anon)
                /\ \A k \in anon : \E j \in added :
                      after[j] = Put(projects[k], "id", after[j].id)
                /\ resp'.op = "reimport" => after = before]_vars

(***************************************************************************)
(* The session specification: login, logout and requests to /api/dems by  *)
(* two clients.  arg holds the environment (APP_USER, APP_PASS), out the  *)
(* Flask session of each client and whether the client has had a          *)
(* successful login since its last logout.                                *)
(***************************************************************************)
Clients == {1, 2}

\* os.environ.get(name): None or a str
EnvNone == [none |-> TRUE]
EnvStr(s) == [str |-> s]
EnvTruthy(v) == "str" \in DOMAIN v /\ v.str # <<>>

EnvValues == {EnvNone, EnvStr(<<>>), EnvStr(<<"a">>)}
Usernames == {<<>>, <<"a">>, <<" ", "a">>, <<"e">>}
Passwords == {<<>>, <<"a">>, <<"a", " ">>}

HOME == [code |-> 302, to |-> "home"]
LOGIN == [code |-> 302, to |-> "login"]
\* require_auth returns None
NoRedirect == [none |-> TRUE]

\* POST /login: the session afterwards and the response
login(session, username_field, password_field, env) ==
    LET username == strip(username_field)
        password == password_field
        app_user == env.APP_USER
        app_pass == env.APP_PASS
    IN  IF /\ EnvTruthy(app_user) /\ EnvTruthy(app_pass)
           /\ EnvStr(username) = app_user /\ EnvStr(password) = app_pass
        THEN [session |-> Put(session, "auth", TRUE), response |-> HOME]
        ELSE [session |-> session,
              response |-> [code |-> 200, to |-> "login.html"]]

\* session.clear()
logout(session) == [session |-> NoData, response |-> LOGIN]

\* a check that lets every session pass
require_auth_open(session) == NoRedirect

require_auth(session) ==
    IF ~Get(session, "auth", FALSE) THEN LOGIN ELSE NoRedirect

DemsOps == {"list", "create", "delete", "import", "analysis"}

\* the handlers of /api/dems behind their first three lines; body: what the
\* response shows of the collection
dems_handler(op, id, file, t) ==
    CASE op = "list" ->
            [code |-> 200, file |-> file,
             body |-> get_dems_filtered(file, FALSE, t)]
      [] op = "create" ->
            [code |-> 200, file |-> create_dem(NoData, file, t).file,
             body |-> <<new_dem(NoData, t)>>]
      [] op = "delete" ->
            [code |-> delete_dem(id, file).code,
             file |-> delete_dem(id, file).file, body |-> <<>>]
      [] op = "import" ->
            [code |-> 200,
             file |-> import_dems_json(<<[status |-> "Idea"]>>, file, t).file,
             body |-> load_dems(
                         import_dems_json(<<[status |-> "Idea"]>>, file, t).file)]
      [] OTHER ->
            IF \E k \in 1..Len(load_dems(file)) :
                  Get(load_dems(file)[k], "id", "") = id
            THEN [code |-> 200, file |-> file,
                  body |-> <<load_dems(file)[First(load_dems(file), id)]>>]
            ELSE [code |-> 404, file |-> file, body |-> <<>>]

\* maybe = require_auth(); if maybe is not None: return ..., 401
\* (generate_ai_solution_analysis: if maybe: return maybe)
dems_request(op, id, session, file, t) ==
    LET maybe == require_auth(session)
    IN  IF maybe # NoRedirect
        THEN [code |-> IF op = "analysis" THEN maybe.code ELSE 401,
              file |-> file, body |-> <<>>]
        ELSE dems_handler(op, id, file, t)

InitAuth ==
    /\ now = 0
    /\ dems_file = ABSENT
    /\ resp = NoResp
    /\ gone = {}
    /\ threads = [t \in Threads |-> Idle]
    /\ arg \in [APP_USER : EnvValues, APP_PASS : EnvValues]
    /\ out = [done |-> FALSE,
              session |-> [c \in Clients |-> NoData],
              logged |-> [c \in Clients |-> FALSE]]

Login ==
    \E c \in Clients, username \in Usernames, password \in Passwords :
       LET r == login(out.session[c], username, password, arg)
       IN  /\ out' = [out EXCEPT !.session[c] = r.session,
                                 !.logged[c] = @ \/ r.response = HOME]
           /\ resp' = [op |-> "login", id |-> "", code |-> r.response.code,
                       data |-> [client |-> c, to |-> r.response.to,
                                 username |-> username, password |-> password]]
           /\ UNCHANGED <<now, dems_file, gone, threads, arg>>

Logout ==
    \E c \in Clients :
       LET r == logout(out.session[c])
       IN  /\ out' = [out EXCEPT !.session[c] = r.session, !.logged[c] = FALSE]
           /\ resp' = [op |-> "logout", id |-> "", code |-> r.response.code,
                       data |-> [client |-> c]]
           /\ UNCHANGED <<now, dems_file, gone, threads, arg>>

DemsRequest ==
    \E c \in Clients, op \in DemsOps, id \in IdInputs :
       LET r == dems_request(op, id, out.session[c], dems_file, now)
       IN  /\ Len(load_dems(r.file)) <= MaxDems
           /\ dems_file' = r.file
           /\ resp' = [op |-> op, id |-> id, code |-> r.code,
                       data |-> [client |-> c, body |-> r.body]]
           /\ UNCHANGED <<now, gone, threads, arg, out>>

NextAuth ==
    \/ Tick(MaxClock)
    \/ Login
    \/ Logout
    \/ DemsRequest

SpecAuth == InitAuth /\ [][NextAuth]_vars

MaxRequests == 3
MaxLists == 1

Sids == {"s1", "s2"}
Messages == {<<"a">>, <<"b", " ">>, <<" ">>}

\* sessions_history.setdefault(sid, []); sessions_context.setdefault(sid, [])
with_session(mem, sid) ==
    [history |-> IF sid \in DOMAIN mem.history THEN mem.history
                 ELSE Put(mem.history, sid, [list |-> 0, items |-> <<>>]),
     context |-> IF sid \in DOMAIN mem.context THEN mem.context
                 ELSE Put(mem.context, sid, <<>>)]

\* completion.choices[0].message.content for the message sent
completion(user_message) == <<" ", "r">> \o user_message

\* history.append(item) on the list object the thread holds
append(mem, sid, list, item) ==
    IF mem.history[sid].list = list
    THEN [mem EXCEPT !.history =
             Put(@, sid, [list |-> list,
                          items |-> Append(mem.history[sid].items, item)])]
    ELSE mem

\* sessions_history[sid] = []; sessions_context[sid] = []
reset_session(mem, sid) ==
    [history |-> Put(with_session(mem, sid).history, sid,
                     [list |-> with_session(mem, sid).history[sid].list + 1,
                      items |-> <<>>]),
     context |-> Put(with_session(mem, sid).context, sid, <<>>)]

\* sessions_context[sid].append(summary) for one file whose summary is not
\* empty; a failed summarize_text is caught and reported for the file
upload_file(mem, sid, llm_ok) ==
    IF llm_ok
    THEN [with_session(mem, sid) EXCEPT !.context =
             Put(@, sid, Append(with_session(mem, sid).context[sid], <<"f">>))]
    ELSE with_session(mem, sid)

Busy(sid) == \E t \in Threads : threads[t].pc # "idle" /\ threads[t].sid = sid

InitChat ==
    /\ now = 0
    /\ dems_file = ABSENT
    /\ resp = NoResp
    /\ gone = {}
    /\ threads = [t \in Threads |-> Idle]
    /\ arg = NoArg
    /\ out = [done |-> FALSE,
              mem |-> [history |-> NoData, context |-> NoData],
              expected |-> [sid \in Sids |-> <<>>],
              overlap |-> [sid \in Sids |-> FALSE],
              arrivals |-> 0]

\* chat up to the call of the LLM: the message is checked, history is the
\* list of the session at this moment
ChatStart(t) ==
    /\ threads[t].pc = "idle"
    /\ out.arrivals < MaxRequests
    /\ \E sid \in Sids, message \in Messages :
          LET user_message == strip(message)
              mem == with_session(out.mem, sid)
              n == out.arrivals + 1
          IN  IF user_message = <<>>
              THEN /\ out' = [out EXCEPT !.mem = mem, !.arrivals = n]
                   /\ resp' = [op |-> "chat", id |-> sid, code |-> 400,
                               data |-> NoData]
                   /\ UNCHANGED threads
              ELSE /\ out' = [out EXCEPT
                                 !.mem = mem, !.arrivals = n,
                                 !.expected[sid] =
                                     Append(@, [n |-> n, message |-> message]),
                                 !.overlap[sid] = @ \/ Busy(sid)]
                   /\ threads' = [threads EXCEPT ![t] =
                                     [pc |-> "llm", sid |-> sid, n |-> n,
                                      user_message |-> user_message,
                                      history |-> mem.history[sid].list]]
                   /\ UNCHANGED resp
    /\ UNCHANGED <<now, dems_file, gone, arg>>

\* client.chat.completions.create returns or raises
ChatLlm(t) ==
    /\ threads[t].pc = "llm"
    /\ \E llm_ok \in BOOLEAN :
          IF llm_ok
          THEN /\ threads' = [threads EXCEPT ![t] =
                                 [@ EXCEPT !.pc = "append_user"]]
               /\ UNCHANGED <<out, resp>>
          ELSE /\ threads' = [threads EXCEPT ![t] = Idle]
               /\ out' = [out EXCEPT !.expected[threads[t].sid] =
                             SelectSeq(@, LAMBDA e : e.n # threads[t].n)]
               /\ resp' = [op |-> "chat", id |-> threads[t].sid, code |-> 500,
                           data |-> NoData]
    /\ UNCHANGED <<now, dems_file, gone, arg>>

\* history.append({"role": "user", "content": user_message})
ChatAppendUser(t) ==
    /\ threads[t].pc = "append_user"
    /\ out' = [out EXCEPT !.mem =
                  append(@, threads[t].sid, threads[t].history,
                         [role |-> "user", content |-> threads[t].user_message])]
    /\ threads' = [threads EXCEPT ![t] = [@ EXCEPT !.pc = "append_reply"]]
    /\ UNCHANGED <<now, dems_file, gone, arg, resp>>

\* history.append({"role": "assistant", "content": assistant_reply})
ChatAppendReply(t) ==
    /\ threads[t].pc = "append_reply"
    /\ out' = [out EXCEPT !.mem =
                  append(@, threads[t].sid, threads[t].history,
                         [role |-> "assistant",
                          content |-> strip(completion(threads[t].user_message))])]
    /\ threads' = [threads EXCEPT ![t] = Idle]
    /\ resp' = [op |-> "chat", id |-> threads[t].sid, code |-> 200,
                data |-> NoData]
    /\ UNCHANGED <<now, dems_file, gone, arg>>

ResetSession ==
    \E sid \in Sids :
       /\ with_session(out.mem, sid).history[sid].list < MaxLists
       /\ out' = [out EXCEPT !.mem = reset_session(@, sid),
                             !.expected[sid] = <<>>,
                             !.overlap[sid] = @ \/ Busy(sid)]
       /\ resp' = [op |-> "reset", id |-> sid, code |-> 200, data |-> NoData]
       /\ UNCHANGED <<now, dems_file, gone, arg, threads>>

UploadFile ==
    \E sid \in Sids, llm_ok \in BOOLEAN :
       /\ Len(with_session(out.mem, sid).context[sid]) < 1
       /\ out' = [out EXCEPT !.mem = upload_file(@, sid, llm_ok)]
       /\ resp' = [op |-> "upload", id |-> sid, code |-> 200, data |-> NoData]
       /\ UNCHANGED <<now, dems_file, gone, arg, threads>>

NextChat ==
    \/ \E t \in Threads : ChatStart(t)
    \/ \E t \in Threads : ChatLlm(t)
    \/ \E t \in Threads : ChatAppendUser(t)
    \/ \E t \in Threads : ChatAppendReply(t)
    \/ ResetSession
    \/ UploadFile

SpecChat == InitChat /\ [][NextChat]_vars

\* the user message and the reply of every chat, in the order of the chats
RECURSIVE Pairs(_)
Pairs(chats) ==
    IF chats = <<>> THEN <<>>
    ELSE <<[role |-> "user", content |-> strip(Head(chats).message)],
           [role |-> "assistant",
            content |-> <<"r">> \o strip(Head(chats).message)]>>
         \o Pairs(Tail(chats))

\* C29: whenever no request of a session is being served, the history of the
\* session is the user message and the reply of each chat that has arrived
\* since its last reset and whose LLM call returned, in order of arrival.
C29_HistoryInRequestOrder ==
    \A sid \in DOMAIN out.mem.history :
       ~Busy(sid) => out.mem.history[sid].items = Pairs(out.expected[sid])

\* the same for the sessions whose requests were served one after the other
C29_SerialSessions ==
    \A sid \in DOMAIN out.mem.history :
       (~Busy(sid) /\ ~out.overlap[sid])
          => out.mem.history[sid].items = Pairs(out.expected[sid])

\* a step changes the history or the context of a session only when it is a
\* step of a request of that session, and a reset leaves both lists of its
\* session empty
C29_OtherSessionsKept ==
    [][\A sid \in DOMAIN out.mem.history :
          /\ (\/ out'.mem.history[sid] # out.mem.history[sid]
              \/ out'.mem.context[sid] # out.mem.context[sid])
                => \/ \E t \in Threads :
                         /\ threads'[t] # threads[t]
                         /\ threads[t].pc # "idle" /\ threads[t].sid = sid
                   \/ /\ threads' = threads
                      /\ resp'.op \in {"reset", "upload"} /\ resp'.id = sid
          /\ (threads' = threads /\ resp'.op = "reset" /\ resp'.id = sid)
                => /\ out'.mem.history[sid].items = <<>>
                   /\ out'.mem.context[sid] = <<>>]_vars

(***************************************************************************)
(* The cleanup specification (src/IACHAT_PRO_v3): cleanup_old_zips on     *)
(* directories of up to five files.  A directory is a function from the   *)
(* names it holds to their modification times; a name is its sequence of  *)
(* characters; times are counted in days.                                 *)
(***************************************************************************)
MaxMtime == 2
DAY == 1                  \* 24*3600 seconds

A_ZIP == <<"a", ".", "z", "i", "p">>
B_ZIP == <<"b", ".", "z", "i", "p">>
C_ZIP == <<"c", ".", "z", "i", "p">>
H_ZIP == <<".", "h", ".", "z", "i", "p">>
D_TXT == <<"d", ".", "t", "x", "t">>

Names == {A_ZIP, B_ZIP, C_ZIP, H_ZIP, D_TXT}

\* orders in which the directory may be listed
Listings ==
    {<<A_ZIP, B_ZIP, C_ZIP, H_ZIP, D_TXT>>,
     <<D_TXT, H_ZIP, C_ZIP, B_ZIP, A_ZIP>>}

\* fnmatch(name, "*.zip")
is_zip(name) ==
    Len(name) >= 4 /\ SubSeq(name, Len(name) - 3, Len(name)) = <<".", "z", "i", "p">>

\* a glob whose "*" also matches a leading dot
glob_dotfiles(dir, listing) ==
    SelectSeq(listing, LAMBDA name : name \in DOMAIN dir /\ is_zip(name))

\* glob.glob(os.path.join(downloads_dir, "*.zip")): the names that match, in
\* the order of the listing; "*" does not match a leading dot
glob(dir, listing) ==
    SelectSeq(listing, LAMBDA name :
                 name \in DOMAIN dir /\ is_zip(name) /\ ~startswith(name, "."))

\* one step of the stable sort by os.path.getmtime, newest first
insert_by_mtime(zips, p, dir) ==
    LET ahead == Cardinality({k \in 1..Len(zips) : dir[zips[k]] >= dir[p]})
    IN  SubSeq(zips, 1, ahead) \o <<p>> \o SubSeq(zips, ahead + 1, Len(zips))

\* sorted(..., key=os.path.getmtime, reverse=True)
RECURSIVE sorted_by_mtime(_, _)
sorted_by_mtime(paths, dir) ==
    IF paths = <<>> THEN <<>>
    ELSE insert_by_mtime(sorted_by_mtime(SubSeq(paths, 1, Len(paths) - 1), dir),
                         paths[Len(paths)], dir)

\* the directory after cleanup_old_zips; denied: the files whose os.remove
\* raises, which the except clause passes over
cleanup_old_zips(dir, keep_last, days, t, listing, denied) ==
    LET zips == sorted_by_mtime(glob(dir, listing), dir)
        cutoff == t - days * DAY
        rest == SubSeq(zips, keep_last + 1, Len(zips))
        removed == {rest[k] : k \in {j \in 1..Len(rest) :
                                        /\ dir[rest[j]] < cutoff
                                        /\ rest[j] \notin denied}}
    IN  [name \in (DOMAIN dir) \ removed |-> dir[name]]

Directories == UNION {[S -> 0..MaxMtime] : S \in SUBSET Names}

InitCleanup ==
    /\ now = MaxMtime
    /\ dems_file = ABSENT
    /\ resp = NoResp
    /\ gone = {}
    /\ threads = [t \in Threads |-> Idle]
    /\ arg \in [dir : Directories, keep_last : 0..2, days : 0..2,
                listing : Listings, denied : {{}, {A_ZIP}}]
    /\ out = NoOut

\* cleanup_old_zips(downloads_dir, keep_last, days)
Cleanup ==
    Produce([done |-> TRUE, op |-> "cleanup",
             keep_last |-> arg.keep_last, days |-> arg.days,
             dir |-> cleanup_old_zips(arg.dir, arg.keep_last, arg.days, now,
                                      arg.listing, arg.denied)])

\* module startup: cleanup_old_zips("downloads", keep_last=100, days=30)
Startup ==
    Produce([done |-> TRUE, op |-> "cleanup", keep_last |-> 100, days |-> 30,
             dir |-> cleanup_old_zips(arg.dir, 100, 30, now,
                                      arg.listing, arg.denied)])

NextCleanup == Cleanup \/ Startup

SpecCleanup == InitCleanup /\ [][NextCleanup]_vars

\* C30 as stated: no deleted file is among the keep_last newest .zip files
\* (at least keep_last other .zip files are as new or newer), every .zip file
\* older than `days` days with keep_last newer .zip files is deleted, and
\* only .zip files older than `days` days are deleted.
C30_DeletesOldZips ==
    (out.done /\ out.op = "cleanup")
       => LET dir == arg.dir
              deleted == (DOMAIN dir) \ DOMAIN out.dir
              zips == {p \in DOMAIN dir : is_zip(p)}
              old(p) == dir[p] < now - out.days * DAY
          IN  /\ \A p \in deleted :
                    Cardinality({q \in zips \ {p} : dir[q] >= dir[p]})
                       >= out.keep_last
              /\ \A p \in zips :
                    (old(p) /\ Cardinality({q \in zips : dir[q] > dir[p]})
                                  >= out.keep_last) => p \in deleted
              /\ \A p \in deleted : p \in zips /\ old(p)

\* C30 amended: the same for the .zip files whose name does not begin with a
\* dot, which are the ones glob lists, and for the files whose removal does
\* not fail; every other file stays.
C30_DeletesOldListedZips ==
    (out.done /\ out.op = "cleanup")
       => LET dir == arg.dir
              deleted == (DOMAIN dir) \ DOMAIN out.dir
              zips == {p \in DOMAIN dir : is_zip(p) /\ Head(p) # "."}
              old(p) == dir[p] < now - out.days * DAY
          IN  /\ \A p \in deleted :
                    Cardinality({q \in zips \ {p} : dir[q] >= dir[p]})
                       >= out.keep_last
              /\ \A p \in zips \ arg.denied :
                    (old(p) /\ Cardinality({q \in zips : dir[q] > dir[p]})
                                  >= out.keep_last) => p \in deleted
              /\ \A p \in deleted : p \in zips /\ old(p) /\ p \notin arg.denied
              /\ \A p \in DOMAIN out.dir : out.dir[p] = dir[p]

\* an old hidden .zip file and an old text file stay, an old listed .zip file
\* beyond the newest one is deleted
C30_Witness ==
    /\ out.done /\ out.op = "cleanup" /\ out.keep_last = 1 /\ out.days = 1
    /\ arg.dir = [name \in Names |-> IF name = B_ZIP THEN 2 ELSE 0]
    /\ arg.denied = {}
    /\ DOMAIN out.dir = {B_ZIP, H_ZIP, D_TXT}

====
